---- MODULE Spec2Model ----
(***************************************************************************)
(* Read-through cache worker (src/index.ts): one fetch handler per request *)
(* over an object store (R2 bucket) and an upstream HTTP API.  Every await *)
(* of the handler is a suspension point, so an invocation is a small       *)
(* process: Receive (method gate, parameters, key, get called), CacheGet   *)
(* (get settles, freshness decision, upstream called), UpstreamFetch (call *)
(* settles, body read), ResponseJson (body parsed, put called), CachePut   *)
(* (put settles, response), interleaved with a second invocation and with  *)
(* the clock.  The store does its work during the call, as the bucket of   *)
(* the repository does: a get looks the key up when it is called and a put *)
(* writes and stamps the entry when it is called; the promise settles      *)
(* later.  Times are in milliseconds, as Date.now() and                    *)
(* uploaded.getTime().  A finished invocation stays visible for one state  *)
(* (pc = "done", with its locals and its response) and is then cleared by  *)
(* Complete.  WorkerSpec is the handler under every behaviour of store,    *)
(* upstream and clock, the bucket being changed by the handler alone; Spec *)
(* adds the calls a test makes on the bucket itself (delete, clear,        *)
(* setWithUploadTime) at any moment; FairSpec adds the settling of every   *)
(* awaited promise, for progress; SameSubjectSpec is the handler with      *)
(* requests for one subject,                                               *)
(* a store that starts empty and may reject any get or put, and an         *)
(* upstream that always                                                    *)
(* succeeds; ParamSpec is the handler with one request at a time and every *)
(* short max_results parameter; EmptyUserSpec is the handler with a userid *)
(* parameter that can be empty; LatestSpec is the predecessor handler that *)
(* the source file still holds.                                            *)
(***************************************************************************)
EXTENDS Integers, Sequences, FiniteSets, TLC

\* ---------------------------------------------------------------- bounds
MaxTicks    == 1        \* one-millisecond clock advances around each window
StartTime   == 2000000  \* Date.now() at the start of a behaviour
MaxParamLen == 3        \* longest max_results parameter, in characters

\* ------------------------------------------------------ program constants
FRESHNESS_MS  == 901000
DefaultUserId == "1472197491844026370"
MamoAgentId   == "1883305846995845120"
DefaultMaxResults == 6
FutureSkew    == 60000

\* ---------------------------------------------------------------- options
None    == <<>>
Some(x) == <<x>>
IsNone(o) == o = <<>>
IsSome(o) == o # <<>>
Get(o) == o[1]

\* ------------------------------------------------------------------ JSON
\* A text is a sequence of lexical tokens; " " is insignificant whitespace.
\* The JSON values that occur are objects of one member, {key: val}, or of
\* two, {key: val, key2: val2}.
Punct == {"{", "}", ":", ",", " "}

StripWs(text) == SelectSeq(text, LAMBDA c : c # " ")

\* response.json(): None when the body is not JSON (the promise rejects)
JsonParse(text) ==
  LET t == StripWs(text) IN
    IF /\ Len(t) = 5
       /\ t[1] = "{" /\ t[3] = ":" /\ t[5] = "}"
       /\ t[2] \notin Punct /\ t[4] \notin Punct
    THEN Some([key |-> t[2], val |-> t[4]])
    ELSE IF /\ Len(t) = 9
            /\ t[1] = "{" /\ t[3] = ":" /\ t[5] = "," /\ t[7] = ":" /\ t[9] = "}"
            /\ t[2] \notin Punct /\ t[4] \notin Punct
            /\ t[6] \notin Punct /\ t[8] \notin Punct
    THEN Some([key |-> t[2], val |-> t[4], key2 |-> t[6], val2 |-> t[8]])
    ELSE None

\* JSON.stringify(value): the canonical text, without whitespace
JsonStringify(value) ==
  IF "key2" \in DOMAIN value
  THEN <<"{", value.key, ":", value.val, ",", value.key2, ":", value.val2, "}">>
  ELSE <<"{", value.key, ":", value.val, "}">>

\* -------------------------------------------------------------- responses
corsHeaders ==
  [h \in {"Access-Control-Allow-Origin", "Access-Control-Allow-Methods",
          "Access-Control-Max-Age"} |->
     CASE h = "Access-Control-Allow-Origin"  -> "*"
       [] h = "Access-Control-Allow-Methods" -> "GET,HEAD,POST,OPTIONS"
       [] h = "Access-Control-Max-Age"       -> "86400"]

JsonHeaders == ("content-type" :> "application/json") @@ corsHeaders

NoResponse == [status |-> 0, body |-> <<>>, headers |-> <<>>]

\* an error code is sent as 502
respond_badGateway(value, code) ==
  [status  |-> IF IsNone(code) THEN 200 ELSE 502,
   body    |-> JsonStringify(value),
   headers |-> JsonHeaders]

\* respond(response, code): status undefined means 200
respond(value, code) ==
  [status  |-> IF IsNone(code) THEN 200 ELSE Get(code),
   body    |-> JsonStringify(value),
   headers |-> JsonHeaders]

\* new Response('Method Not Allowed', {status: 405, headers: {Allow: 'GET'}});
\* a string body without a content type gets text/plain
MethodNotAllowed ==
  [status |-> 405, body |-> <<"Method Not Allowed">>,
   headers |-> ("Allow" :> "GET") @@
               ("content-type" :> "text/plain;charset=UTF-8")]

\* new Response(object.body, {headers, status: 200})
CachedResponse(object) ==
  [status |-> 200, body |-> object.body, headers |-> JsonHeaders]

FetchErrorValue == [key |-> "error", val |-> "Failed to fetch data and no cache available"]
ParseErrorValue == [key |-> "error", val |-> "Failed to parse response and no cache available"]

\* ------------------------------------------------------ request parameters
\* the requests that arrive: method, userid parameter, max_results parameter
\* (None when the URL does not carry the parameter)
Requests ==
  {[method |-> "GET",  userid |-> None,        max_results |-> None],
   [method |-> "GET",  userid |-> Some(MamoAgentId), max_results |-> None],
   [method |-> "GET",  userid |-> Some(MamoAgentId), max_results |-> Some(<<"1">>)],
   [method |-> "POST", userid |-> Some(MamoAgentId), max_results |-> None]}

UserIdParams == {q.userid : q \in Requests}

Digits == {"0", "1", "2", "3", "4", "5", "6", "7", "8", "9"}
HexDigits == Digits \cup {"a", "b", "c", "d", "e", "f", "A", "B", "C", "D", "E", "F"}
DigitVal(c) ==
  CASE c = "0" -> 0 [] c = "1" -> 1 [] c = "2" -> 2 [] c = "3" -> 3
    [] c = "4" -> 4 [] c = "5" -> 5 [] c = "6" -> 6 [] c = "7" -> 7
    [] c = "8" -> 8 [] c = "9" -> 9
    [] c \in {"a", "A"} -> 10 [] c \in {"b", "B"} -> 11
    [] c \in {"c", "C"} -> 12 [] c \in {"d", "D"} -> 13
    [] c \in {"e", "E"} -> 14 [] c \in {"f", "F"} -> 15

RECURSIVE DigitPrefix(_, _, _, _)
\* value of the longest prefix of s made of the radix's digits, given the
\* value acc read so far
DigitPrefix(s, digits, radix, acc) ==
  IF s = <<>> \/ Head(s) \notin digits THEN acc
  ELSE DigitPrefix(Tail(s), digits, radix, radix * acc + DigitVal(Head(s)))

RECURSIVE SkipSpaces(_)
SkipSpaces(s) == IF s # <<>> /\ Head(s) = " " THEN SkipSpaces(Tail(s)) ELSE s

\* parseInt(s) without a radix: leading whitespace, a sign, a 0x prefix for
\* base 16, then the longest run of digits; None stands for NaN
parseInt(s) ==
  LET t      == SkipSpaces(s)
      neg    == t # <<>> /\ Head(t) = "-"
      sgn    == t # <<>> /\ Head(t) \in {"-", "+"}
      u      == IF sgn THEN Tail(t) ELSE t
      hex    == Len(u) >= 2 /\ u[1] = "0" /\ u[2] \in {"x", "X"}
      body   == IF hex THEN Tail(Tail(u)) ELSE u
      digits == IF hex THEN HexDigits ELSE Digits
      radix  == IF hex THEN 16 ELSE 10
      n      == DigitPrefix(body, digits, radix, 0)
  IN IF body = <<>> \/ Head(body) \notin digits THEN None
     ELSE Some(IF neg THEN 0 - n ELSE n)

\* no default: the parameter as given
useridOf_asGiven(param) == IF IsNone(param) THEN "" ELSE Get(param)

\* the default only when the parameter is missing; an empty one is kept
useridOf_onlyAbsent(param) == IF IsNone(param) THEN DefaultUserId ELSE Get(param)

\* url.searchParams.get('userid') || '1472197491844026370'
useridOf(param) ==
  IF IsNone(param) \/ Get(param) = "" THEN DefaultUserId ELSE Get(param)

\* the default only when the parameter is missing or is not a number
max_resultsOf_onFailure(param) ==
  LET max_results_param == IF IsNone(param) \/ Get(param) = <<>>
                           THEN <<"6">> ELSE Get(param)
      n == parseInt(max_results_param)
  IN IF IsNone(n) THEN DefaultMaxResults ELSE Get(n)

\* parseInt(url.searchParams.get('max_results') || '6') || 6
max_resultsOf(param) ==
  LET max_results_param == IF IsNone(param) \/ Get(param) = <<>>
                           THEN <<"6">> ELSE Get(param)
      n == parseInt(max_results_param)
  IN IF IsNone(n) \/ Get(n) = 0 THEN DefaultMaxResults ELSE Get(n)

\* one key for every subject
cacheKey_latest(userid) == "latest.json"

\* `${userid}.json`
cacheKey(userid) == userid \o ".json"

twitterUrl(userid, max_results) ==
  "https://api.twitter.com/2/users/" \o userid \o "/tweets?max_results=" \o
  ToString(max_results) \o
  "&tweet.fields=created_at,entities,public_metrics&expansions=author_id&user.fields=profile_image_url,username"

UserIds == {useridOf(p) : p \in UserIdParams}

\* ------------------------------------------------------------ object store
\* the metadata names the default subject, whoever the request is for
Metadata_default(userid) ==
  [m \in {"Content-Type", "userid"} |->
     IF m = "userid" THEN DefaultUserId ELSE "application/json"]

Metadata(userid) ==
  [m \in {"Content-Type", "userid"} |->
     IF m = "userid" THEN userid ELSE "application/json"]

\* the object a put creates; the store stamps the upload time
StoredObject(value, metadata, uploadTime) ==
  [body |-> value, metadata |-> metadata, uploaded |-> uploadTime]

EmptyStore == <<>>

\* storage.delete(key)
StoreDelete(s, key) == [k \in DOMAIN s \ {key} |-> s[k]]

\* storage.get(key) || null
StoreGet(s, key) == IF key \in DOMAIN s THEN Some(s[key]) ELSE None

\* a put onto an existing key appends the body and keeps the old metadata
StorePut_merge(s, key, object) ==
  [k \in DOMAIN s \cup {key} |->
     IF k # key THEN s[k]
     ELSE IF key \in DOMAIN s
          THEN [object EXCEPT !.body = s[key].body \o object.body,
                              !.metadata = s[key].metadata]
          ELSE object]

\* a put that drops the other keys
StorePut_clobber(s, key, object) == [k \in {key} |-> object]

\* storage.set(key, object): replaces the whole object under key
StorePut(s, key, object) ==
  [k \in DOMAIN s \cup {key} |-> IF k = key THEN object ELSE s[k]]

\* ---------------------------------------------------------------- upstream
\* the subjects the provider knows
MockUserIds == {DefaultUserId, MamoAgentId}

\* tweets.slice(0, maxResults).length over the two tweets the provider holds
\* for a subject
TweetCount(max_results) ==
  IF max_results >= 2 THEN 2
  ELSE IF max_results >= 0 THEN max_results
  ELSE IF max_results = 0 - 1 THEN 1
  ELSE 0

\* the payload the provider returns for a subject and a size limit: the
\* subject and as many of its tweets as the limit lets through
Payload(userid, max_results) ==
  [key |-> userid, val |-> ToString(TweetCount(max_results))]

\* the same JSON text, pretty-printed
Spaced(text) == <<text[1], " ", text[2], text[3], " ", text[4], text[5]>>

InvalidJsonText == <<"Invalid", "JSON", "{", "{", "{">>

RateLimitText ==
  JsonStringify([key  |-> "error",  val  |-> "Rate limit exceeded",
                 key2 |-> "detail", val2 |-> "Too Many Requests"])

NotFoundText == JsonStringify([key |-> "error", val |-> "User not found"])

\* what the global fetch(twitterUrl, ...) can do for a subject and a size
UpstreamOutcomes(userid, max_results) ==
  {[kind |-> "throw", status |-> 0,   text |-> <<>>],
   [kind |-> "resp",  status |-> 429, text |-> RateLimitText],
   [kind |-> "resp",  status |-> 200, text |-> InvalidJsonText]} \cup
  (IF userid \in MockUserIds
   THEN {[kind |-> "resp",  status |-> 200,
          text |-> JsonStringify(Payload(userid, max_results))],
         [kind |-> "resp",  status |-> 200,
          text |-> Spaced(JsonStringify(Payload(userid, max_results)))]}
   ELSE {[kind |-> "resp",  status |-> 404, text |-> NotFoundText]})

\* every status counts as a success
ok_any(response) == TRUE

\* response.ok
ok(response) == response.status >= 200 /\ response.status <= 299

\* ------------------------------------------------------------------- state
VARIABLES
  now,       \* Date.now()
  store,     \* env.MY_BUCKET: key -> object
  req        \* the invocations of the handler, per slot

vars == <<now, store, req>>

\* two invocations can be in flight at once
Slots == {1, 2}

IdleReq ==
  [pc          |-> "idle",
   method      |-> "",
   useridParam |-> None,
   max_results_param |-> None,
   userid      |-> "",
   max_results |-> 0,
   cacheKey    |-> "",
   pending     |-> None,
   object      |-> None,
   getFailed   |-> FALSE,
   twitterUrl  |-> "",
   fault       |-> "none",
   text        |-> <<>>,
   data        |-> None,
   putFailed   |-> FALSE,
   gets        |-> 0,
   fetches     |-> 0,
   puts        |-> 0,
   response    |-> NoResponse]

\* entries an earlier run of the handler left behind; the store's clock
\* stamps them, so an upload time can lie ahead of the worker's clock
InitUploads ==
  {StartTime - FRESHNESS_MS, StartTime - FRESHNESS_MS + 1, StartTime + FutureSkew}

\* the stores a behaviour starts from: the empty store, or one entry set with
\* a chosen upload time for one subject; the entries of the other subject are
\* the ones the handler writes in the behaviour
InitStores ==
  {EmptyStore} \cup
  {StorePut(EmptyStore, cacheKey(u),
            StoredObject(JsonStringify(Payload(u, DefaultMaxResults)), Metadata(u), t))
     : u \in {MamoAgentId}, t \in InitUploads}

Init ==
  /\ now = StartTime
  /\ store \in InitStores
  /\ req = [i \in Slots |-> IdleReq]

\* ----------------------------------------------------------------- actions
\* a response is being handed back
Returning == \E i \in Slots : req[i].pc = "done"

\* return: the response is produced and the invocation's locals are dead
Return(r, response) ==
  [r EXCEPT !.pc = "done", !.response = response]

\* no method gate
MethodAllowed_any(method) == TRUE

\* line 20: the method gate
MethodAllowed(method) == method = "GET"

\* the size limit takes part in the key
RequestContext_sizeKey(useridParam, maxResultsParam) ==
  LET userid == useridOf(useridParam) IN
    [userid      |-> userid,
     max_results |-> max_resultsOf(maxResultsParam),
     cacheKey    |-> cacheKey(userid \o "-" \o ToString(max_resultsOf(maxResultsParam)))]

\* lines 33-38: the request context
RequestContext(useridParam, maxResultsParam) ==
  LET userid == useridOf(useridParam) IN
    [userid      |-> userid,
     max_results |-> max_resultsOf(maxResultsParam),
     cacheKey    |-> cacheKey(userid)]

\* the get is issued before the method is looked at
Receive_getFirst(i, method, useridParam, maxResultsParam) ==
  /\ ~Returning
  /\ req[i].pc = "idle"
  /\ \A j \in Slots : j < i => req[j].pc # "idle"
  /\ LET ctx == RequestContext(useridParam, maxResultsParam)
         r   == [IdleReq EXCEPT !.pc = "get", !.method = method,
                                !.useridParam = useridParam,
                                !.max_results_param = maxResultsParam,
                                !.userid = ctx.userid,
                                !.max_results = ctx.max_results,
                                !.cacheKey = ctx.cacheKey,
                                !.pending = StoreGet(store, ctx.cacheKey),
                                !.gets = 1]
     IN req' = [req EXCEPT ![i] =
                  IF ~MethodAllowed(method)
                  THEN Return([r EXCEPT !.pending = None], MethodNotAllowed)
                  ELSE r]
  /\ UNCHANGED <<now, store>>

\* lines 18-43: method gate, parameters, cache key; then the get is called,
\* and the store looks the key up during the call: the promise holds what
\* was under the key at that moment
Receive(i, method, useridParam, maxResultsParam) ==
  /\ ~Returning
  /\ req[i].pc = "idle"
  /\ \A j \in Slots : j < i => req[j].pc # "idle"
  /\ IF ~MethodAllowed(method)
     THEN req' = [req EXCEPT ![i] =
                    Return([IdleReq EXCEPT !.method = method], MethodNotAllowed)]
     ELSE LET ctx == RequestContext(useridParam, maxResultsParam) IN
          req' = [req EXCEPT ![i] =
                    [IdleReq EXCEPT !.pc = "get", !.method = method,
                                    !.useridParam = useridParam,
                                    !.max_results_param = maxResultsParam,
                                    !.userid = ctx.userid,
                                    !.max_results = ctx.max_results,
                                    !.cacheKey = ctx.cacheKey,
                                    !.pending = StoreGet(store, ctx.cacheKey),
                                    !.gets = 1]]
  /\ UNCHANGED <<now, store>>

\* no window: any entry older than now is stale
MissOrStale_noWindow(object, time) ==
  \/ IsNone(object)
  \/ Get(object).uploaded < time

\* an upload time ahead of the clock counts as stale
MissOrStale_rejectFuture(object, time) ==
  \/ IsNone(object)
  \/ Get(object).uploaded < time - FRESHNESS_MS
  \/ Get(object).uploaded > time

\* lines 49-52: the miss-or-stale condition
MissOrStale(object, time) ==
  \/ IsNone(object)
  \/ Get(object).uploaded < time - FRESHNESS_MS

\* one expiry for the whole store: any stale entry makes every request fetch
CacheGet_anyStale(i, fails) ==
  /\ ~Returning
  /\ req[i].pc = "get"
  /\ LET object == IF fails THEN None ELSE req[i].pending
         r      == [req[i] EXCEPT !.getFailed = fails, !.object = object,
                                  !.pending = None]
     IN
       IF \/ MissOrStale(object, now)
          \/ \E k \in DOMAIN store : MissOrStale(Some(store[k]), now)
       THEN req' = [req EXCEPT ![i] =
                      [r EXCEPT !.pc = "fetch", !.fetches = @ + 1,
                                !.twitterUrl = twitterUrl(r.userid, r.max_results)]]
       ELSE req' = [req EXCEPT ![i] = Return(r, CachedResponse(Get(object)))]
  /\ UNCHANGED <<now, store>>

\* single flight: a get does not settle while another request for the key
\* is fetching or writing
CacheGet_singleFlight(i, fails) ==
  /\ ~Returning
  /\ req[i].pc = "get"
  /\ \A j \in Slots \ {i} :
       ~(req[j].cacheKey = req[i].cacheKey /\ req[j].pc \in {"fetch", "json", "put"})
  /\ LET object == IF fails THEN None ELSE StoreGet(store, req[i].cacheKey)
         r      == [req[i] EXCEPT !.getFailed = fails, !.object = object,
                                  !.pending = None]
     IN
       IF MissOrStale(object, now)
       THEN req' = [req EXCEPT ![i] =
                      [r EXCEPT !.pc = "fetch", !.fetches = @ + 1,
                                !.twitterUrl = twitterUrl(r.userid, r.max_results)]]
       ELSE req' = [req EXCEPT ![i] = Return(r, CachedResponse(Get(object)))]
  /\ UNCHANGED <<now, store>>

\* a rejected get still hands over the entry
CacheGet_reads(i, fails) ==
  /\ ~Returning
  /\ req[i].pc = "get"
  /\ LET object == req[i].pending
         r      == [req[i] EXCEPT !.getFailed = fails, !.object = object,
                                  !.pending = None]
     IN
       IF MissOrStale(object, now)
       THEN req' = [req EXCEPT ![i] =
                      [r EXCEPT !.pc = "fetch", !.fetches = @ + 1,
                                !.twitterUrl = twitterUrl(r.userid, r.max_results)]]
       ELSE req' = [req EXCEPT ![i] = Return(r, CachedResponse(Get(object)))]
  /\ UNCHANGED <<now, store>>

\* a rejected get ends the request with the error
CacheGet_abort(i, fails) ==
  /\ ~Returning
  /\ req[i].pc = "get"
  /\ LET object == IF fails THEN None ELSE req[i].pending
         r      == [req[i] EXCEPT !.getFailed = fails, !.object = object,
                                  !.pending = None]
     IN
       IF fails
       THEN req' = [req EXCEPT ![i] = Return(r, respond(FetchErrorValue, Some(500)))]
       ELSE IF MissOrStale(object, now)
       THEN req' = [req EXCEPT ![i] =
                      [r EXCEPT !.pc = "fetch", !.fetches = @ + 1,
                                !.twitterUrl = twitterUrl(r.userid, r.max_results)]]
       ELSE req' = [req EXCEPT ![i] = Return(r, CachedResponse(Get(object)))]
  /\ UNCHANGED <<now, store>>

\* a hit stamps the entry it serves with the time of the read
CacheGet_touch(i, fails) ==
  /\ ~Returning
  /\ req[i].pc = "get"
  /\ LET object == IF fails THEN None ELSE req[i].pending
         r      == [req[i] EXCEPT !.getFailed = fails, !.object = object,
                                  !.pending = None]
     IN
       IF MissOrStale(object, now)
       THEN /\ req' = [req EXCEPT ![i] =
                           [r EXCEPT !.pc = "fetch", !.fetches = @ + 1,
                                     !.twitterUrl = twitterUrl(r.userid, r.max_results)]]
            /\ store' = store
       ELSE /\ req' = [req EXCEPT ![i] = Return(r, CachedResponse(Get(object)))]
            /\ store' = StorePut(store, req[i].cacheKey,
                                 [Get(object) EXCEPT !.uploaded = now])
  /\ UNCHANGED now

\* lines 41-72 and 123-129: the get settles with what the store looked up
\* when it was called (a rejected get leaves object null) and the freshness
\* decision follows, against the clock of this moment: a hit responds at
\* once, a miss or a stale entry calls the upstream
CacheGet(i, fails) ==
  /\ ~Returning
  /\ req[i].pc = "get"
  /\ LET object == IF fails THEN None ELSE req[i].pending
         r      == [req[i] EXCEPT !.getFailed = fails, !.object = object,
                                  !.pending = None]
     IN
       IF MissOrStale(object, now)
       THEN req' = [req EXCEPT ![i] =
                      [r EXCEPT !.pc = "fetch", !.fetches = @ + 1,
                                !.twitterUrl = twitterUrl(r.userid, r.max_results)]]
       ELSE req' = [req EXCEPT ![i] = Return(r, CachedResponse(Get(object)))]
  /\ UNCHANGED <<now, store>>

\* no stale fallback: a failure is always an error
Fallback_noStale(object, errorValue) == respond(errorValue, Some(500))

\* the error is sent without its status code
Fallback_okStatus(object, errorValue) ==
  IF IsSome(object) THEN CachedResponse(Get(object))
  ELSE respond(errorValue, None)

\* lines 78-90 and 95-107: stale entry if one was read, else the error
Fallback(object, errorValue) ==
  IF IsSome(object) THEN CachedResponse(Get(object))
  ELSE respond(errorValue, Some(500))

\* the fallback reads the store again
UpstreamFetch_rereads(i) ==
  /\ ~Returning
  /\ req[i].pc = "fetch"
  /\ \E outcome \in UpstreamOutcomes(req[i].userid, req[i].max_results) :
       IF outcome.kind = "throw" \/ ~ok(outcome)
       THEN req' = [req EXCEPT ![i] =
                      Return([req[i] EXCEPT !.fault = IF outcome.kind = "throw"
                                                      THEN "network" ELSE "status"],
                             Fallback(StoreGet(store, req[i].cacheKey), FetchErrorValue))]
       ELSE req' = [req EXCEPT ![i] = [@ EXCEPT !.pc = "json"]]
  /\ UNCHANGED <<now, store>>

\* a failed upstream call is made once more before the fallback
UpstreamFetch_retry(i) ==
  /\ ~Returning
  /\ req[i].pc = "fetch"
  /\ \E outcome \in UpstreamOutcomes(req[i].userid, req[i].max_results) :
       IF (outcome.kind = "throw" \/ ~ok(outcome)) /\ req[i].fetches < 2
       THEN req' = [req EXCEPT ![i] = [@ EXCEPT !.fetches = @ + 1]]
       ELSE IF outcome.kind = "throw" \/ ~ok(outcome)
       THEN req' = [req EXCEPT ![i] =
                      Return([req[i] EXCEPT !.fault = IF outcome.kind = "throw"
                                                      THEN "network" ELSE "status"],
                             Fallback(req[i].object, FetchErrorValue))]
       ELSE req' = [req EXCEPT ![i] = [@ EXCEPT !.pc = "json"]]
  /\ UNCHANGED <<now, store>>

\* a failed upstream call stamps the stale entry it falls back to, so the
\* entry counts as fresh for another window
UpstreamFetch_restamp(i) ==
  /\ ~Returning
  /\ req[i].pc = "fetch"
  /\ \E outcome \in UpstreamOutcomes(req[i].userid, req[i].max_results) :
       /\ IF outcome.kind = "throw" \/ ~ok(outcome)
          THEN req' = [req EXCEPT ![i] =
                         Return([req[i] EXCEPT !.fault = IF outcome.kind = "throw"
                                                         THEN "network" ELSE "status"],
                                Fallback(req[i].object, FetchErrorValue))]
          ELSE req' = [req EXCEPT ![i] = [@ EXCEPT !.pc = "json"]]
       /\ store' = IF (outcome.kind = "throw" \/ ~ok(outcome)) /\ IsSome(req[i].object)
                   THEN StorePut(store, req[i].cacheKey,
                                 [Get(req[i].object) EXCEPT !.uploaded = now])
                   ELSE store
  /\ UNCHANGED now

\* lines 63-94: the upstream call settles; a throw or a non-ok status falls
\* back; an ok response has its body read with response.json()
UpstreamFetch(i) ==
  /\ ~Returning
  /\ req[i].pc = "fetch"
  /\ \E outcome \in UpstreamOutcomes(req[i].userid, req[i].max_results) :
       IF outcome.kind = "throw" \/ ~ok(outcome)
       THEN req' = [req EXCEPT ![i] =
                      Return([req[i] EXCEPT !.fault = IF outcome.kind = "throw"
                                                      THEN "network" ELSE "status"],
                             Fallback(req[i].object, FetchErrorValue))]
       ELSE req' = [req EXCEPT ![i] = [@ EXCEPT !.pc = "json"]]
  /\ UNCHANGED <<now, store>>

\* the parsed payload is kept in a variable of the module that every
\* invocation shares: a request takes over the payload another request has
\* in flight
ResponseJson_shared(i, fails) ==
  /\ ~Returning
  /\ req[i].pc = "json"
  /\ \E outcome \in {o \in UpstreamOutcomes(req[i].userid, req[i].max_results) :
                        o.kind = "resp" /\ ok(o)} :
       LET own  == JsonParse(outcome.text)
           held == {req[j].data : j \in {k \in Slots : k # i /\ req[k].pc = "put"}}
           data == IF IsSome(own) /\ held # {} THEN CHOOSE d \in held : TRUE ELSE own
       IN
         IF IsNone(data)
         THEN /\ req' = [req EXCEPT ![i] =
                           Return([req[i] EXCEPT !.fault = "payload"],
                                  Fallback(req[i].object, ParseErrorValue))]
              /\ store' = store
         ELSE /\ req' = [req EXCEPT ![i] =
                           [@ EXCEPT !.pc = "put", !.text = outcome.text,
                                     !.data = data, !.puts = @ + 1,
                                     !.putFailed = fails]]
              /\ store' = IF fails THEN store
                          ELSE StorePut(store, req[i].cacheKey,
                                        StoredObject(JsonStringify(Get(data)),
                                                     Metadata(req[i].userid), now))
  /\ UNCHANGED now

\* a rejected put removes the entry under the key
ResponseJson_evicts(i, fails) ==
  /\ ~Returning
  /\ req[i].pc = "json"
  /\ \E outcome \in {o \in UpstreamOutcomes(req[i].userid, req[i].max_results) :
                        o.kind = "resp" /\ ok(o)} :
       LET data == JsonParse(outcome.text) IN
         IF IsNone(data)
         THEN /\ req' = [req EXCEPT ![i] =
                           Return([req[i] EXCEPT !.fault = "payload"],
                                  Fallback(req[i].object, ParseErrorValue))]
              /\ store' = store
         ELSE /\ req' = [req EXCEPT ![i] =
                           [@ EXCEPT !.pc = "put", !.text = outcome.text,
                                     !.data = data, !.puts = @ + 1,
                                     !.putFailed = fails]]
              /\ store' = IF fails
                          THEN [k \in DOMAIN store \ {req[i].cacheKey} |-> store[k]]
                          ELSE StorePut(store, req[i].cacheKey,
                                        StoredObject(JsonStringify(Get(data)),
                                                     Metadata(req[i].userid), now))
  /\ UNCHANGED now

\* the payload is returned without being written
ResponseJson_noStore(i, fails) ==
  /\ ~Returning
  /\ req[i].pc = "json"
  /\ \E outcome \in {o \in UpstreamOutcomes(req[i].userid, req[i].max_results) :
                        o.kind = "resp" /\ ok(o)} :
       LET data == JsonParse(outcome.text) IN
         IF IsNone(data)
         THEN /\ req' = [req EXCEPT ![i] =
                           Return([req[i] EXCEPT !.fault = "payload"],
                                  Fallback(req[i].object, ParseErrorValue))]
              /\ store' = store
         ELSE /\ req' = [req EXCEPT ![i] =
                           [@ EXCEPT !.pc = "put", !.text = outcome.text,
                                     !.data = data, !.puts = @ + 1,
                                     !.putFailed = fails]]
              /\ store' = store
  /\ UNCHANGED now

\* lines 92-116: response.json() settles; a body that is not JSON falls
\* back; a parsed body is put: the store writes the entry during the call
\* and stamps it with the time of the call, unless it rejects the put
ResponseJson(i, fails) ==
  /\ ~Returning
  /\ req[i].pc = "json"
  /\ \E outcome \in {o \in UpstreamOutcomes(req[i].userid, req[i].max_results) :
                        o.kind = "resp" /\ ok(o)} :
       LET data == JsonParse(outcome.text) IN
         IF IsNone(data)
         THEN /\ req' = [req EXCEPT ![i] =
                           Return([req[i] EXCEPT !.fault = "payload"],
                                  Fallback(req[i].object, ParseErrorValue))]
              /\ store' = store
         ELSE /\ req' = [req EXCEPT ![i] =
                           [@ EXCEPT !.pc = "put", !.text = outcome.text,
                                     !.data = data, !.puts = @ + 1,
                                     !.putFailed = fails]]
              /\ store' = IF fails THEN store
                          ELSE StorePut(store, req[i].cacheKey,
                                        StoredObject(JsonStringify(Get(data)),
                                                     Metadata(req[i].userid), now))
  /\ UNCHANGED now

\* a rejected put is not caught: the handler ends without a response
CachePut_uncaught(i) ==
  /\ ~Returning
  /\ req[i].pc = "put"
  /\ req' = [req EXCEPT ![i] =
               IF req[i].putFailed THEN [req[i] EXCEPT !.pc = "threw"]
               ELSE Return(req[i], respond(Get(req[i].data), None))]
  /\ UNCHANGED <<now, store>>

\* a rejected put ends the request with the error
CachePut_abort(i) ==
  /\ ~Returning
  /\ req[i].pc = "put"
  /\ req' = [req EXCEPT ![i] =
               Return(req[i],
                      IF req[i].putFailed THEN respond(FetchErrorValue, Some(500))
                      ELSE respond(Get(req[i].data), None))]
  /\ UNCHANGED <<now, store>>

\* lines 111-122: the put settles; a rejected put is caught and ignored;
\* the payload is the response
CachePut(i) ==
  /\ ~Returning
  /\ req[i].pc = "put"
  /\ req' = [req EXCEPT ![i] = Return(req[i], respond(Get(req[i].data), None))]
  /\ UNCHANGED <<now, store>>

\* the response is delivered and the invocation ends
Complete(i) ==
  /\ req[i].pc = "done"
  /\ req' = [req EXCEPT ![i] = IdleReq]
  /\ UNCHANGED <<now, store>>

\* the clock advances by a millisecond
Tick ==
  /\ ~Returning
  /\ (now - StartTime) % FRESHNESS_MS < MaxTicks
  /\ now' = now + 1
  /\ UNCHANGED <<store, req>>

\* a whole freshness window passes while no request is in flight, once in a
\* behaviour
Jump ==
  /\ \A i \in Slots : req[i].pc = "idle"
  /\ now - StartTime < FRESHNESS_MS
  /\ now' = now + FRESHNESS_MS
  /\ UNCHANGED <<store, req>>

\* the upload times the tests set an entry with: those of the entries a
\* behaviour can start with, and the clock's present
SetUploadTimes == InitUploads \cup {now}

\* the bucket's delete(key), called by a test between the steps of the
\* handler: the entry under the key is gone
BucketDelete(key) ==
  /\ ~Returning
  /\ store' = StoreDelete(store, key)
  /\ UNCHANGED <<now, req>>

\* the bucket's clear(), called by a test: the store is empty
BucketClear ==
  /\ ~Returning
  /\ store' = EmptyStore
  /\ UNCHANGED <<now, req>>

\* the bucket's setWithUploadTime(key, value, uploadTime, metadata), called by
\* a test: the entry under the key is the object given, whatever was there
BucketSetWithUploadTime(key, value, uploadTime, metadata) ==
  /\ ~Returning
  /\ store' = StorePut(store, key, StoredObject(value, metadata, uploadTime))
  /\ UNCHANGED <<now, req>>

\* the steps of a test on the bucket, at any moment between the steps of the
\* invocations; the handler calls none of them
BucketNext ==
  \/ \E u \in UserIds : BucketDelete(cacheKey(u))
  \/ BucketClear
  \/ \E u \in {MamoAgentId}, t \in SetUploadTimes :
       BucketSetWithUploadTime(cacheKey(u),
                               JsonStringify(Payload(u, DefaultMaxResults)),
                               t, Metadata(u))

\* the steps of the handler's invocations
HandlerNext ==
  \/ \E i \in Slots, q \in Requests :
       Receive(i, q.method, q.userid, q.max_results)
  \/ \E i \in Slots, f \in BOOLEAN : CacheGet(i, f)
  \/ \E i \in Slots : UpstreamFetch(i)
  \/ \E i \in Slots, f \in BOOLEAN : ResponseJson(i, f)
  \/ \E i \in Slots : CachePut(i)
  \/ \E i \in Slots : Complete(i)

\* the handler and the clock: the bucket is changed by the handler alone
WorkerNext ==
  \/ HandlerNext
  \/ Tick
  \/ Jump

WorkerSpec == Init /\ [][WorkerNext]_vars

\* the handler, the clock and the tests' own calls on the bucket
Next ==
  \/ HandlerNext
  \/ Tick
  \/ Jump
  \/ BucketNext

Spec == Init /\ [][Next]_vars

\* a step of invocation i after its arrival: a promise it awaits settles and
\* the continuation runs, or its response is delivered
Step(i) ==
  \/ \E f \in BOOLEAN : CacheGet(i, f)
  \/ UpstreamFetch(i)
  \/ \E f \in BOOLEAN : ResponseJson(i, f)
  \/ CachePut(i)
  \/ Complete(i)

\* every awaited promise settles and the runtime then runs the continuation:
\* a step of an invocation that is possible again and again is eventually
\* taken
Fairness == \A i \in Slots : SF_vars(Step(i))

\* the clock is read, never awaited: no step of the handler waits for it, so
\* for progress a behaviour keeps the clock it starts with, on either side
\* of the freshness window of the entries it starts with
FairInit ==
  /\ now \in {StartTime, StartTime + FRESHNESS_MS + 1}
  /\ store \in InitStores
  /\ req = [i \in Slots |-> IdleReq]

FairSpec == FairInit /\ [][HandlerNext]_vars /\ Fairness

\* concurrent requests for one subject against a store that starts empty,
\* with an upstream that always succeeds; the store may reject any get and
\* any put
SameSubjectRequests ==
  {q \in Requests : q.method = "GET" /\ q.userid = Some(MamoAgentId)}

EmptyInit ==
  /\ now = StartTime
  /\ store = EmptyStore
  /\ req = [i \in Slots |-> IdleReq]

SameSubjectNext ==
  \/ \E i \in Slots, q \in SameSubjectRequests :
       Receive(i, q.method, q.userid, q.max_results)
  \/ \E i \in Slots, fails \in BOOLEAN : CacheGet(i, fails)
  \/ \E i \in Slots : UpstreamFetch(i) /\ req'[i].fault = "none"
  \/ \E i \in Slots, fails \in BOOLEAN :
       ResponseJson(i, fails) /\ req'[i].fault = "none"
  \/ \E i \in Slots : CachePut(i)
  \/ \E i \in Slots : Complete(i)
  \/ Tick
  \/ Jump

SameSubjectSpec == EmptyInit /\ [][SameSubjectNext]_vars

\* the values a max_results parameter can have: missing, or a string of at
\* most MaxParamLen characters
ParamChars == {"0", "3", "7", "-", "+", "x", "a", " "}

RECURSIVE Strings(_)
Strings(n) ==
  IF n = 0 THEN {<<>>}
  ELSE Strings(n - 1) \cup
       {Append(t, c) : t \in {u \in Strings(n - 1) : Len(u) = n - 1}, c \in ParamChars}

MaxResultsParams == {None} \cup {Some(t) : t \in Strings(MaxParamLen)}

\* one request at a time, with any max_results parameter, against a store
\* that stays empty: the request reads, calls the upstream, and the call fails
ParamNext ==
  \/ /\ \A j \in Slots : req[j].pc = "idle"
     /\ \E i \in Slots, u \in UserIdParams, p \in MaxResultsParams :
          Receive(i, "GET", u, p)
  \/ \E i \in Slots : CacheGet(i, FALSE)
  \/ \E i \in Slots : UpstreamFetch(i) /\ req'[i].fault # "none"
  \/ \E i \in Slots : Complete(i)

ParamSpec == EmptyInit /\ [][ParamNext]_vars

\* the userid parameters of GET requests, with the one that is present but
\* empty (?userid=)
EmptyUserIdParams == UserIdParams \cup {Some("")}

\* GET requests without a size, with a userid parameter that is missing,
\* empty or given, against a store that starts empty
EmptyUserNext ==
  \/ \E i \in Slots, u \in EmptyUserIdParams : Receive(i, "GET", u, None)
  \/ \E i \in Slots, f \in BOOLEAN : CacheGet(i, f)
  \/ \E i \in Slots : UpstreamFetch(i)
  \/ \E i \in Slots, f \in BOOLEAN : ResponseJson(i, f)
  \/ \E i \in Slots : CachePut(i)
  \/ \E i \in Slots : Complete(i)
  \/ Tick
  \/ Jump

EmptyUserSpec == EmptyInit /\ [][EmptyUserNext]_vars

\* ------------------------------------------------- the predecessor handler
\* the earlier handler kept in the source after the current one: one key for
\* every subject, a window of 600 seconds, the parameters read after the
\* lookup, and no try/catch, so a rejected promise ends the invocation with
\* an exception instead of a response
LATEST_FRESHNESS_MS == 600000

LatestKey == "latest.json"

\* metadata of the predecessor's entries: the content-type tag alone
LatestMetadata == [m \in {"Content-Type"} |-> "application/json"]

\* parseInt(url.searchParams.get('max_results') || '5'); None stands for NaN
Latest_max_resultsOf(param) ==
  parseInt(IF IsNone(param) \/ Get(param) = <<>> THEN <<"5">> ELSE Get(param))

\* a number in a string concatenation
NumberText(n) == IF IsNone(n) THEN "NaN" ELSE ToString(Get(n))

LatestUrl(userid, max_results) ==
  "https://api.twitter.com/2/users/" \o userid \o "/liked_tweets?max_results=" \o
  NumberText(max_results) \o
  "&tweet.fields=created_at,entities,public_metrics&expansions=author_id&user.fields=profile_image_url,username"

\* the payload the provider returns: tweets.slice(0, NaN) is empty
LatestPayload(userid, max_results) ==
  [key |-> userid,
   val |-> IF IsNone(max_results) THEN "0" ELSE ToString(TweetCount(Get(max_results)))]

\* what the global fetch(twitterUrl, ...) can do
LatestOutcomes(userid, max_results) ==
  {[kind |-> "throw", status |-> 0,   text |-> <<>>],
   [kind |-> "resp",  status |-> 429, text |-> RateLimitText],
   [kind |-> "resp",  status |-> 200, text |-> InvalidJsonText]} \cup
  (IF userid \in MockUserIds
   THEN {[kind |-> "resp",  status |-> 200,
          text |-> JsonStringify(LatestPayload(userid, max_results))],
         [kind |-> "resp",  status |-> 200,
          text |-> Spaced(JsonStringify(LatestPayload(userid, max_results)))]}
   ELSE {[kind |-> "resp",  status |-> 404, text |-> NotFoundText]})

\* lines 164-167: no entry, or an entry older than the window
LatestMissOrStale(object, time) ==
  \/ IsNone(object)
  \/ Get(object).uploaded < time - 600 * 1000

\* an exception leaves the handler: the invocation ends without a response
\* of the handler
Throw(r) == Return([r EXCEPT !.fault = "uncaught"], NoResponse)

\* lines 150-162: method gate; then the get of 'latest.json' is called, and
\* the store looks the key up during the call
LatestReceive(i, method, useridParam, maxResultsParam) ==
  /\ ~Returning
  /\ req[i].pc = "idle"
  /\ \A j \in Slots : j < i => req[j].pc # "idle"
  /\ IF ~MethodAllowed(method)
     THEN req' = [req EXCEPT ![i] =
                    Return([IdleReq EXCEPT !.method = method], MethodNotAllowed)]
     ELSE req' = [req EXCEPT ![i] =
                    [IdleReq EXCEPT !.pc = "get", !.method = method,
                                    !.useridParam = useridParam,
                                    !.max_results_param = maxResultsParam,
                                    !.max_results = None,
                                    !.cacheKey = LatestKey,
                                    !.pending = StoreGet(store, LatestKey),
                                    !.gets = 1]]
  /\ UNCHANGED <<now, store>>

\* an entry that holds another subject's payload counts as a miss
LatestGet_checksSubject(i, fails) ==
  /\ ~Returning
  /\ req[i].pc = "get"
  /\ LET object      == req[i].pending
         userid      == useridOf(req[i].useridParam)
         max_results == Latest_max_resultsOf(req[i].max_results_param)
         foreign     == /\ IsSome(object)
                        /\ JsonParse(Get(object).body) # None
                        /\ Get(JsonParse(Get(object).body)).key # userid
     IN
       IF fails
       THEN req' = [req EXCEPT ![i] =
                      Throw([req[i] EXCEPT !.getFailed = TRUE, !.pending = None])]
       ELSE IF LatestMissOrStale(object, now) \/ foreign
       THEN req' = [req EXCEPT ![i] =
                      [@ EXCEPT !.pc = "fetch", !.object = object, !.pending = None,
                                !.userid = userid, !.max_results = max_results,
                                !.twitterUrl = LatestUrl(userid, max_results),
                                !.fetches = @ + 1]]
       ELSE req' = [req EXCEPT ![i] =
                      Return([req[i] EXCEPT !.object = object, !.pending = None],
                             CachedResponse(Get(object)))]
  /\ UNCHANGED <<now, store>>

\* lines 162-188 and 197-203: the get settles (a rejected get is not
\* caught); a hit responds at once; on a miss or a stale entry the subject
\* and the size are read from the URL and the upstream is called
LatestGet(i, fails) ==
  /\ ~Returning
  /\ req[i].pc = "get"
  /\ LET object      == req[i].pending
         userid      == useridOf(req[i].useridParam)
         max_results == Latest_max_resultsOf(req[i].max_results_param)
     IN
       IF fails
       THEN req' = [req EXCEPT ![i] =
                      Throw([req[i] EXCEPT !.getFailed = TRUE, !.pending = None])]
       ELSE IF LatestMissOrStale(object, now)
       THEN req' = [req EXCEPT ![i] =
                      [@ EXCEPT !.pc = "fetch", !.object = object, !.pending = None,
                                !.userid = userid, !.max_results = max_results,
                                !.twitterUrl = LatestUrl(userid, max_results),
                                !.fetches = @ + 1]]
       ELSE req' = [req EXCEPT ![i] =
                      Return([req[i] EXCEPT !.object = object, !.pending = None],
                             CachedResponse(Get(object)))]
  /\ UNCHANGED <<now, store>>

\* lines 180-190: the upstream call settles; a throw is not caught; the body
\* of the response is read with response.json(), whatever the status
LatestFetch(i) ==
  /\ ~Returning
  /\ req[i].pc = "fetch"
  /\ \E outcome \in LatestOutcomes(req[i].userid, req[i].max_results) :
       IF outcome.kind = "throw"
       THEN req' = [req EXCEPT ![i] = Throw(req[i])]
       ELSE req' = [req EXCEPT ![i] = [@ EXCEPT !.pc = "json"]]
  /\ UNCHANGED <<now, store>>

\* lines 190-195: response.json() settles; a body that is not JSON is an
\* exception; a parsed body is put under 'latest.json': the store writes the
\* entry during the call, unless it rejects the put
LatestJson(i, fails) ==
  /\ ~Returning
  /\ req[i].pc = "json"
  /\ \E outcome \in {o \in LatestOutcomes(req[i].userid, req[i].max_results) :
                        o.kind = "resp"} :
       LET data == JsonParse(outcome.text) IN
         IF IsNone(data)
         THEN /\ req' = [req EXCEPT ![i] = Throw(req[i])]
              /\ store' = store
         ELSE /\ req' = [req EXCEPT ![i] =
                           [@ EXCEPT !.pc = "put", !.text = outcome.text,
                                     !.data = data, !.puts = @ + 1,
                                     !.putFailed = fails]]
              /\ store' = IF fails THEN store
                          ELSE StorePut(store, LatestKey,
                                        StoredObject(JsonStringify(Get(data)),
                                                     LatestMetadata, now))
  /\ UNCHANGED now

\* lines 191-196: the put settles (a rejected put is not caught); the
\* payload is the response
LatestPut(i) ==
  /\ ~Returning
  /\ req[i].pc = "put"
  /\ req' = [req EXCEPT ![i] =
               IF req[i].putFailed THEN Throw(req[i])
               ELSE Return(req[i], respond(Get(req[i].data), None))]
  /\ UNCHANGED <<now, store>>

LatestNext ==
  \/ \E i \in Slots, q \in Requests :
       LatestReceive(i, q.method, q.userid, q.max_results)
  \/ \E i \in Slots, f \in BOOLEAN : LatestGet(i, f)
  \/ \E i \in Slots : LatestFetch(i)
  \/ \E i \in Slots, f \in BOOLEAN : LatestJson(i, f)
  \/ \E i \in Slots : LatestPut(i)
  \/ \E i \in Slots : Complete(i)
  \/ Tick
  \/ Jump

\* the predecessor handler over a store that starts empty
LatestSpec == EmptyInit /\ [][LatestNext]_vars

\* ------------------------------------------------------------------ claims
Active(i) == req[i].pc # "idle" /\ req[i].method = "GET"
Done(i)   == req[i].pc = "done" /\ req[i].method = "GET"
Failed(i) == Done(i) /\ req[i].fault # "none"
Age(i)    == now - Get(req[i].object).uploaded

FetchErrorBody ==
  <<"{", "error", ":", "Failed to fetch data and no cache available", "}">>
ParseErrorBody ==
  <<"{", "error", ":", "Failed to parse response and no cache available", "}">>

\* the step of slot i in which its put is called: the store writes the
\* entry during the call, unless it rejects the put
PutStep(i) == req[i].pc = "json" /\ req'[i].pc = "put"

\* a step of an invocation of the handler; the calls of a test on the bucket
\* and the clock leave the invocations as they are
HandlerStep == req' # req

\* C1: key isolation. A step of the handler changes the entry under a key
\* only when it is the put of a request for a subject a and the key is
\* a + ".json"; the entry read back for any other subject b is what it was
\* before the step. This holds whatever a test does to the bucket between
\* the steps.
C1_KeyIsolation ==
  [][/\ \A k \in DOMAIN store \cup DOMAIN store' :
          (HandlerStep /\ StoreGet(store', k) # StoreGet(store, k)) =>
            \E i \in Slots : PutStep(i) /\ k = req[i].userid \o ".json"
     /\ \A i \in Slots : PutStep(i) =>
          \A b \in UserIds : b # req[i].userid =>
            StoreGet(store', cacheKey(b)) = StoreGet(store, cacheKey(b))]_vars

\* C1 witness: a put for one subject has landed while another subject's
\* entry is in the store
C1_Witness ==
  \E i \in Slots :
    /\ Done(i) /\ req[i].puts = 1 /\ ~req[i].putFailed
    /\ \E b \in UserIds : b # req[i].userid /\ cacheKey(b) \in DOMAIN store

\* C2 as stated: whenever the upstream attempt fails and the store holds an
\* entry under the request's key, the response is 200 with that entry's body.
C2_Original ==
  \A i \in Slots :
    (Failed(i) /\ req[i].cacheKey \in DOMAIN store) =>
      /\ req[i].response.status = 200
      /\ req[i].response.body = store[req[i].cacheKey].body

\* C2 amended: whenever the upstream attempt fails and the request's store
\* read returned an entry, of any age, the response is 200 with the body of
\* the entry as read, and no error body is produced.
C2_StaleFallback ==
  \A i \in Slots :
    (Failed(i) /\ IsSome(req[i].object)) =>
      /\ req[i].response.status = 200
      /\ req[i].response.body = Get(req[i].object).body
      /\ req[i].response.body \notin {FetchErrorBody, ParseErrorBody}
      /\ req[i].response.headers = JsonHeaders

\* C2 witness: a network error answered from a stale entry
C2_Witness ==
  \E i \in Slots :
    /\ Failed(i) /\ req[i].fault = "network" /\ IsSome(req[i].object)
    /\ Age(i) > FRESHNESS_MS
    /\ req[i].response.status = 200

\* C3: terminal error. When the upstream call throws or returns a non-success
\* status and the store holds no entry under the request's key, the response
\* is 500 with body {"error": "Failed to fetch data and no cache available"}.
C3_TerminalError ==
  \A i \in Slots :
    (Done(i) /\ req[i].fault \in {"network", "status"}
             /\ req[i].cacheKey \notin DOMAIN store) =>
      /\ req[i].response.status = 500
      /\ req[i].response.body = FetchErrorBody

\* C3 witness: a non-success status with nothing in the store for the key
C3_Witness ==
  \E i \in Slots :
    /\ Done(i) /\ req[i].fault = "status"
    /\ req[i].cacheKey \notin DOMAIN store
    /\ req[i].response.status = 500

\* C4: a body that is not JSON gets the response a transport fault
\* gets in the same cache state: the entry read if there is one, else 500
\* with the message "Failed to fetch data and no cache available".
C4_Original ==
  \A i \in Slots :
    (Done(i) /\ req[i].fault = "payload") =>
      IF IsSome(req[i].object)
      THEN /\ req[i].response.status = 200
           /\ req[i].response.body = Get(req[i].object).body
      ELSE /\ req[i].response.status = 500
           /\ req[i].response.body = FetchErrorBody

\* C4 failing case: an unparsable body with no entry read is answered 500
\* with the message "Failed to parse response and no cache available"
C4_Witness ==
  \E i \in Slots :
    /\ Done(i) /\ req[i].fault = "payload" /\ IsNone(req[i].object)
    /\ req[i].cacheKey \notin DOMAIN store
    /\ req[i].response.status = 500
    /\ req[i].response.body = ParseErrorBody
    /\ req[i].response.body # FetchErrorBody

\* C5: fresh hit. A request whose read returns an entry with
\* now - uploaded < 901 s is answered 200 with the stored body and makes no
\* upstream call.
C5_FreshHit ==
  \A i \in Slots :
    (Active(i) /\ IsSome(req[i].object) /\ Age(i) < 901 * 1000) =>
      /\ req[i].pc = "done"
      /\ req[i].response.status = 200
      /\ req[i].response.body = Get(req[i].object).body
      /\ req[i].fetches = 0

\* C5 witness: a hit on an entry one millisecond short of the window
C5_Witness ==
  \E i \in Slots :
    /\ Done(i) /\ IsSome(req[i].object) /\ Age(i) = 901 * 1000 - 1
    /\ req[i].fetches = 0 /\ req[i].response.status = 200

\* C6: every request reading an entry of age >= 901 s, exactly
\* 901 s included, makes an upstream call.
C6_Original ==
  \A i \in Slots :
    (Active(i) /\ IsSome(req[i].object) /\ Age(i) >= 901 * 1000) =>
      req[i].fetches = 1

\* C6 failing case: a request that read an entry aged exactly 901 s has been
\* answered 200 with the stored body and has made no upstream call
C6_Witness ==
  \E i \in Slots :
    /\ Done(i) /\ IsSome(req[i].object)
    /\ Age(i) = 901 * 1000
    /\ req[i].fetches = 0 /\ req[i].puts = 0
    /\ req[i].response.status = 200
    /\ req[i].response.body = Get(req[i].object).body

\* C7: an entry uploaded later than now is fresh: the request is answered 200
\* with the stored body and makes no upstream call.
C7_FutureTimestamp ==
  \A i \in Slots :
    (Active(i) /\ IsSome(req[i].object) /\ Get(req[i].object).uploaded > now) =>
      /\ req[i].pc = "done"
      /\ req[i].response.status = 200
      /\ req[i].response.body = Get(req[i].object).body
      /\ req[i].fetches = 0

\* C7 witness: a hit on an entry dated a minute ahead
C7_Witness ==
  \E i \in Slots :
    /\ Done(i) /\ IsSome(req[i].object)
    /\ Get(req[i].object).uploaded >= now + 60 * 1000
    /\ req[i].fetches = 0 /\ req[i].response.status = 200

\* C8: the size limit takes no part in the key. Requests for one subject have
\* one key whatever their max_results, the store never holds a second entry
\* for the subject, and a request reading a fresh entry, whichever size wrote
\* it, is a hit with no upstream call and no put.
C8_KeyIgnoresSize ==
  /\ \A i, j \in Slots :
       (Active(i) /\ Active(j) /\ req[i].userid = req[j].userid) =>
         req[i].cacheKey = req[j].cacheKey
  /\ DOMAIN store \subseteq {u \o ".json" : u \in UserIds}
  /\ \A i \in Slots :
       (Done(i) /\ IsSome(req[i].object) /\ Age(i) <= FRESHNESS_MS) =>
         /\ req[i].fetches = 0 /\ req[i].puts = 0
         /\ req[i].response.status = 200
         /\ req[i].response.body = Get(req[i].object).body

\* C8 witness: a request with max_results 1 is served the entry a request
\* with the default size wrote in this behaviour
C8_Witness ==
  \E i \in Slots :
    /\ Done(i) /\ req[i].max_results = 1 /\ IsSome(req[i].object)
    /\ Get(req[i].object).uploaded \notin InitUploads
    /\ Get(req[i].object).body = JsonStringify(Payload(req[i].userid, 6))
    /\ req[i].fetches = 0 /\ req[i].response.status = 200
    /\ req[i].response.body = Get(req[i].object).body
    /\ Cardinality(DOMAIN store) = 1

\* C9: the key is subject + ".json" and distinct subjects have distinct
\* keys, so the store holds at most one entry per subject.
C9_KeyInjective ==
  /\ \A a, b \in UserIds : a # b => cacheKey(a) # cacheKey(b)
  /\ \A i \in Slots : Active(i) => req[i].cacheKey = req[i].userid \o ".json"
  /\ \A i, j \in Slots :
       (Active(i) /\ Active(j) /\ req[i].userid # req[j].userid) =>
         req[i].cacheKey # req[j].cacheKey
  /\ \A k \in DOMAIN store : k = store[k].metadata["userid"] \o ".json"
  /\ \A u \in UserIds :
       Cardinality({k \in DOMAIN store : store[k].metadata["userid"] = u}) <= 1

\* C9 witness: requests for two subjects have each written their entry
C9_Witness ==
  /\ Cardinality(DOMAIN store) = 2
  /\ \A k \in DOMAIN store : store[k].uploaded \notin InitUploads
  /\ \E i \in Slots : Done(i) /\ req[i].puts = 1 /\ ~req[i].putFailed

\* C10: method gate. A request whose method is not GET is answered 405 with
\* Allow: GET, makes no store read, no store write and no upstream call, and
\* leaves the store as it was.
C10_MethodGate ==
  /\ [](\A i \in Slots :
          (req[i].pc # "idle" /\ req[i].method # "GET") =>
            /\ req[i].pc = "done"
            /\ req[i].response.status = 405
            /\ req[i].response.body = <<"Method Not Allowed">>
            /\ req[i].response.headers["Allow"] = "GET"
            /\ req[i].response.headers =
                 ("Allow" :> "GET") @@ ("content-type" :> "text/plain;charset=UTF-8")
            /\ req[i].gets = 0 /\ req[i].fetches = 0 /\ req[i].puts = 0)
  /\ [][\A i \in Slots :
          (/\ req'[i] # req[i]
           /\ \/ req[i].method \notin {"", "GET"}
              \/ req'[i].method \notin {"", "GET"}) => store' = store]_vars

\* C10 witness: a POST has been answered
C10_Witness ==
  \E i \in Slots :
    req[i].pc = "done" /\ req[i].method = "POST" /\ req[i].response.status = 405

\* the step of slot i in which its get is called: the store reads the key
\* during the call, and the promise settles later with what was read
CallStep(i) == req[i].pc = "idle" /\ req'[i].pc = "get"

\* the step of slot i in which its get settles
GetStep(i) == req[i].pc = "get" /\ req'[i].pc # "get"

\* the step of slot i in which its put settles and the handler returns
ReturnStep(i) == req[i].pc = "put" /\ req'[i].pc = "done"

\* the body a request hands to the put and returns to the caller
DataBody(r) == JsonStringify(Get(r.data))

\* C11: default identifier. A GET request that omits the userid parameter
\* has cache key "1472197491844026370.json": its read is of that key, its
\* write creates the entry under that key and no other, and the entry written
\* records userid 1472197491844026370 in its metadata.
C11_DefaultIdentifier ==
  /\ [](\A i \in Slots :
          (Active(i) /\ IsNone(req[i].useridParam)) =>
            /\ req[i].userid = "1472197491844026370"
            /\ req[i].cacheKey = "1472197491844026370.json")
  /\ [][\A i \in Slots :
          (CallStep(i) /\ IsNone(req'[i].useridParam)) =>
            req'[i].pending = StoreGet(store, "1472197491844026370.json")]_vars
  /\ [][\A i \in Slots :
          (Active(i) /\ IsNone(req[i].useridParam)) =>
            /\ (GetStep(i) /\ ~req'[i].getFailed) =>
                 req'[i].object = req[i].pending
            /\ (PutStep(i) /\ ~req'[i].putFailed) =>
                 /\ "1472197491844026370.json" \in DOMAIN store'
                 /\ store'["1472197491844026370.json"].metadata["userid"] =
                      "1472197491844026370"
                 /\ store'["1472197491844026370.json"].body = DataBody(req'[i])
                 /\ \A k \in (DOMAIN store \cup DOMAIN store') \ {"1472197491844026370.json"} :
                      StoreGet(store', k) = StoreGet(store, k)]_vars

\* C11 witness: a request without userid has read nothing under the default
\* key and has written the entry there
C11_Witness ==
  \E i \in Slots :
    /\ Done(i) /\ IsNone(req[i].useridParam)
    /\ IsNone(req[i].object) /\ ~req[i].getFailed
    /\ req[i].puts = 1 /\ ~req[i].putFailed
    /\ "1472197491844026370.json" \in DOMAIN store
    /\ store["1472197491844026370.json"].uploaded = now
    /\ store["1472197491844026370.json"].metadata["userid"] = "1472197491844026370"

\* the body of a response carrying the payload fetched for slot i's request
FreshBody(i) == JsonStringify(Payload(req[i].userid, req[i].max_results))

\* C12: a store read failure is not fatal. A request whose get was rejected
\* goes on as a request that found no entry: nothing is read, the upstream
\* call is made, and when the upstream succeeds the put is attempted and the
\* response is 200 with the payload just fetched; it is 500 only when the
\* upstream attempt failed too.
C12_ReadFailure ==
  \A i \in Slots :
    (Active(i) /\ req[i].getFailed) =>
      /\ IsNone(req[i].object)
      /\ req[i].pc \in {"fetch", "json", "put", "done"}
      /\ req[i].fetches = 1
      /\ req[i].pc = "put" => req[i].puts = 1 /\ IsSome(req[i].data)
      /\ (req[i].pc = "done" /\ req[i].fault = "none") =>
           /\ req[i].puts = 1
           /\ req[i].response.status = 200
           /\ req[i].response.body = FreshBody(i)
      /\ (req[i].pc = "done" /\ req[i].fault # "none") =>
           /\ req[i].puts = 0
           /\ req[i].response.status = 500

\* C12 witness: the get was rejected, the upstream succeeded, and the fresh
\* payload was written under the key and returned
C12_Witness ==
  \E i \in Slots :
    /\ Done(i) /\ req[i].getFailed /\ req[i].fault = "none"
    /\ req[i].puts = 1 /\ ~req[i].putFailed
    /\ req[i].response.status = 200
    /\ req[i].response.body = FreshBody(i)
    /\ store[req[i].cacheKey].uploaded = now

\* C13: a store write failure is not fatal. Whenever the upstream call
\* succeeded with a body that parses, the response is 200 with the payload
\* just fetched, whether the put that followed succeeded or was rejected.
C13_WriteFailure ==
  \A i \in Slots :
    (Done(i) /\ req[i].fetches = 1 /\ req[i].fault = "none") =>
      /\ IsSome(req[i].data)
      /\ req[i].puts = 1
      /\ req[i].response.status = 200
      /\ req[i].response.body = JsonStringify(Get(req[i].data))
      /\ req[i].response.body = FreshBody(i)
      /\ req[i].response.headers = JsonHeaders

\* C13 witness: the put was rejected, the store has no entry for the key, and
\* the response is 200 with the fresh payload
C13_Witness ==
  \E i \in Slots :
    /\ Done(i) /\ req[i].putFailed /\ req[i].fault = "none"
    /\ req[i].cacheKey \notin DOMAIN store
    /\ req[i].response.status = 200
    /\ req[i].response.body = FreshBody(i)

\* no put has landed in this behaviour: a put stamps its entry with the
\* clock, which is never one of the initial upload times, and no entry is
\* ever removed, so the store is then the store every read of the behaviour
\* saw
StoreUntouched == store \in InitStores

\* the error value of slot i's upstream fault
ErrorValue(i) ==
  IF req[i].fault = "payload" THEN ParseErrorValue ELSE FetchErrorValue

\* the response slot i's request gets from the handler when neither its get
\* nor its put is rejected, for the store, the clock and the upstream outcome
\* of the state
WithoutStoreFailure(i) ==
  LET object == StoreGet(store, req[i].cacheKey) IN
    IF ~MissOrStale(object, now) THEN CachedResponse(Get(object))
    ELSE IF req[i].fault # "none" THEN Fallback(object, ErrorValue(i))
    ELSE respond(Get(req[i].data), None)

\* C14 as stated: with the store contents, the clock and the upstream outcome
\* held fixed, a request whose get or put was rejected is answered 500
\* exactly when it is answered 500 without the rejection.
C14_Original ==
  \A i \in Slots :
    (Done(i) /\ StoreUntouched /\ (req[i].getFailed \/ req[i].putFailed)) =>
      (req[i].response.status = 500 <=> WithoutStoreFailure(i).status = 500)

\* C14 amended: with the store contents, the clock and the upstream outcome
\* held fixed, a rejected put never changes the response. A rejected get makes
\* the request one that found no entry: it is answered 500 exactly when its
\* upstream attempt fails, so the classification changes, from 200 to 500,
\* exactly when the store holds an entry for the key and the upstream attempt
\* fails; a store failure never turns a 500 into a 200.
C14_Propagation ==
  /\ now \notin InitUploads
  /\ \A i \in Slots :
    (Done(i) /\ StoreUntouched) =>
      /\ (req[i].putFailed /\ ~req[i].getFailed) =>
           req[i].response = WithoutStoreFailure(i)
      /\ req[i].getFailed =>
           /\ req[i].response.status = IF req[i].fault # "none" THEN 500 ELSE 200
           /\ req[i].response.status # WithoutStoreFailure(i).status <=>
                (req[i].fault # "none" /\ req[i].cacheKey \in DOMAIN store)
           /\ WithoutStoreFailure(i).status = 500 => req[i].response.status = 500

\* C14 witness: the get was rejected while the store holds an entry for the
\* key and the upstream call failed: the response is 500, and 200 without
\* the rejection
C14_Witness ==
  \E i \in Slots :
    /\ Done(i) /\ StoreUntouched /\ req[i].getFailed
    /\ req[i].cacheKey \in DOMAIN store /\ req[i].fault = "status"
    /\ req[i].response.status = 500
    /\ WithoutStoreFailure(i).status = 200

\* C15 as stated: a GET request is answered 200 or 500, and 500 only if its
\* upstream attempt failed and the store holds no entry under its key.
C15_Original ==
  \A i \in Slots :
    Done(i) =>
      /\ req[i].response.status \in {200, 500}
      /\ req[i].response.status = 500 =>
           (req[i].fault # "none" /\ req[i].cacheKey \notin DOMAIN store)

\* C15 amended: a GET request is answered 200 or 500, and 500 exactly when
\* its upstream attempt failed and its own store read returned no entry (the
\* key was absent when it was read, or the read was rejected); in every other
\* case the status is 200.
C15_OnlyFailure ==
  \A i \in Slots :
    Done(i) =>
      /\ req[i].response.status \in {200, 500}
      /\ req[i].response.status = 500 <=>
           (req[i].fault # "none" /\ IsNone(req[i].object))
      /\ req[i].response.status = 500 =>
           req[i].response.body \in {FetchErrorBody, ParseErrorBody}

\* C15 witness: a request read no entry, another request then wrote one under
\* the key, and the first request's upstream call failed: 500 although the
\* store holds an entry
C15_Witness ==
  \E i \in Slots :
    /\ Done(i) /\ ~req[i].getFailed /\ IsNone(req[i].object)
    /\ req[i].fault # "none" /\ req[i].response.status = 500
    /\ req[i].cacheKey \in DOMAIN store

\* C16: every request ends with exactly one response. Whatever the get, the
\* upstream call, the parse and the put do (a rejected get and a rejected put
\* include a store handle that is missing), every request in flight reaches
\* its return; a response exists exactly at the return, it has status 200,
\* 405 or 500, and it is produced by the one step that ends the request.
C16_Terminates ==
  /\ \A i \in Slots : (req[i].pc # "idle") ~> (req[i].pc = "done")
  /\ [](\A i \in Slots :
          /\ req[i].pc \in {"idle", "get", "fetch", "json", "put", "done"}
          /\ req[i].pc = "done" <=> req[i].response # NoResponse
          /\ req[i].pc = "done" => req[i].response.status \in {200, 405, 500})
  /\ [][\A i \in Slots :
          req'[i].response # req[i].response =>
            \/ req[i].pc \notin {"idle", "done"} /\ req'[i].pc = "done"
            \/ req[i].pc = "idle" /\ req'[i].pc = "done" /\ req'[i].method # "GET"
            \/ req[i].pc = "done" /\ req'[i] = IdleReq]_vars

\* C16 witness: a request whose get and put were both rejected has returned
C16_Witness ==
  \E i \in Slots :
    /\ Done(i) /\ req[i].getFailed /\ req[i].putFailed
    /\ req[i].response.status = 200

\* C17: end-to-end reuse. A request for subject s that finds no fresh entry,
\* gets a successful upstream response and whose put succeeds is answered 200
\* with the payload, and the store then holds under s + ".json" an entry
\* with that very body. A later request for s whose read finds an entry
\* within the freshness window is answered 200 with the body of that entry,
\* makes no upstream call and leaves the store as it is; the body it returns
\* for an entry written in this behaviour is a payload fetched for s.
C17_Reuse ==
  /\ [][\A i \in Slots :
          /\ (PutStep(i) /\ ~req'[i].putFailed) =>
               /\ DataBody(req'[i]) = FreshBody(i)
               /\ StoreGet(store', req[i].userid \o ".json") =
                    Some(StoredObject(FreshBody(i), Metadata(req[i].userid), now))
          /\ ReturnStep(i) =>
               /\ req'[i].response.status = 200
               /\ req'[i].response.body = FreshBody(i)
          /\ CallStep(i) =>
               req'[i].pending = StoreGet(store, req'[i].userid \o ".json")
          /\ (/\ GetStep(i) /\ ~req'[i].getFailed
              /\ IsSome(req[i].pending)
              /\ now - Get(req[i].pending).uploaded < FRESHNESS_MS) =>
               /\ req'[i].pc = "done"
               /\ req'[i].response.status = 200
               /\ req'[i].response.body = Get(req[i].pending).body
               /\ req'[i].fetches = 0
               /\ store' = store]_vars
  /\ [](\A i \in Slots :
          (Done(i) /\ req[i].fetches = 0
                   /\ Get(req[i].object).uploaded \notin InitUploads) =>
            \E q \in Requests :
              req[i].response.body =
                JsonStringify(Payload(req[i].userid, max_resultsOf(q.max_results))))

\* C17 witness: an entry written in this behaviour is read by a later,
\* identical request within the window: 200, the same body, no upstream call
C17_Witness ==
  \E i \in Slots :
    /\ Done(i) /\ ~req[i].getFailed /\ IsSome(req[i].object)
    /\ Get(req[i].object).uploaded \notin InitUploads
    /\ Get(req[i].object).uploaded < now /\ Age(i) < FRESHNESS_MS
    /\ Get(req[i].object).body = FreshBody(i)
    /\ req[i].fetches = 0 /\ req[i].response.status = 200
    /\ req[i].response.body = FreshBody(i)
    /\ store[req[i].cacheKey] = Get(req[i].object)

\* slot i's step is the put call of a refetch, and the put is not rejected
Refetched(i) ==
  /\ PutStep(i) /\ ~req'[i].putFailed
  /\ IsSome(req[i].object)

\* the JSON text of a value in canonical form, without whitespace
Canonical(value) ==
  IF "key2" \in DOMAIN value
  THEN <<"{", value.key, ":", value.val, ",", value.key2, ":", value.val2, "}">>
  ELSE <<"{", value.key, ":", value.val, "}">>

\* C18: idempotent refetch. After a refetch whose put succeeded, the entry
\* read back has a body identical to the upstream body as fetched and to the
\* body returned to the caller, and its upload time is the write time, later
\* than that of the entry it replaced.
C18_Original ==
  [][\A i \in Slots :
       /\ Refetched(i) =>
            /\ store'[req[i].cacheKey].body = req'[i].text
            /\ store'[req[i].cacheKey].uploaded = now
            /\ req[i].cacheKey \in DOMAIN store =>
                 store'[req[i].cacheKey].uploaded > store[req[i].cacheKey].uploaded
       /\ ReturnStep(i) => req'[i].response.body = req[i].text]_vars

\* C18 failing case: a refetch of a stale entry whose upstream body is
\* pretty-printed has returned: the entry holds the canonical text, not the
\* body fetched, and it is the body returned to the caller
C18_Witness ==
  \E i \in Slots :
    /\ Done(i) /\ IsSome(req[i].object)
    /\ req[i].puts = 1 /\ ~req[i].putFailed
    /\ req[i].text = Spaced(Canonical(Get(req[i].data)))
    /\ store[req[i].cacheKey].body # req[i].text
    /\ store[req[i].cacheKey].body = req[i].response.body
    /\ store[req[i].cacheKey].uploaded = now

\* slot i's request found no fresh entry and went to the upstream
Missed(i) ==
  /\ Active(i) /\ req[i].fetches = 1
  /\ IsNone(req[i].object) \/ Get(req[i].object).uploaded < now - FRESHNESS_MS

\* C19: no single flight and no lock. A request is never held back by
\* another request for the same subject: its get, its upstream call and its
\* put can settle whatever the other invocation is doing; whether it goes to
\* the upstream depends on its own read only; and its put lands
\* unconditionally, over whatever entry is then under the key. So two
\* requests for one stale or missing subject can both miss, both call the
\* upstream and both write (the witness).
C19_NoSingleFlight ==
  /\ [](\A i \in Slots :
          ~Returning =>
            /\ req[i].pc = "get"   => ENABLED CacheGet(i, FALSE)
            /\ req[i].pc = "fetch" => ENABLED UpstreamFetch(i)
            /\ req[i].pc = "json"  => ENABLED ResponseJson(i, FALSE)
            /\ req[i].pc = "put"   => ENABLED CachePut(i))
  /\ [][\A i \in Slots :
          /\ GetStep(i) =>
               /\ req'[i].object =
                    IF req'[i].getFailed THEN None ELSE req[i].pending
               /\ req'[i].pc = "fetch" <=> MissOrStale(req'[i].object, now)
          /\ (PutStep(i) /\ ~req'[i].putFailed) =>
               /\ store'[req[i].cacheKey].body = DataBody(req'[i])
               /\ store'[req[i].cacheKey].uploaded = now]_vars

\* C19 witness: two requests for one subject have both missed and both
\* called the upstream; one has written its result and the put of the other
\* is under way
C19_Witness ==
  \E i, j \in Slots :
    /\ i # j /\ req[i].cacheKey = req[j].cacheKey
    /\ Missed(i) /\ Missed(j)
    /\ req[i].pc = "done" /\ req[i].puts = 1 /\ ~req[i].putFailed
    /\ store[req[i].cacheKey].body = req[i].response.body
    /\ req[j].pc = "put" /\ req[j].puts = 1
    /\ StoreGet(store, req[j].cacheKey) # req[j].object

\* the bodies carrying a payload fetched for the subject of slot i's request
FetchedBodies(i) ==
  {JsonStringify(Payload(req[i].userid, max_resultsOf(q.max_results))) :
     q \in SameSubjectRequests}

\* C20 as stated: concurrent requests for one subject, against a store that
\* starts empty and an upstream that always succeeds. Under every
\* interleaving each request is answered 200 with the fetched payload, and
\* once a request has completed the store holds exactly one entry, the one
\* under the subject's key.
C20_Original ==
  /\ DOMAIN store \subseteq {MamoAgentId \o ".json"}
  /\ \A i \in Slots :
       Done(i) =>
         /\ req[i].response.status = 200
         /\ req[i].response.body \in FetchedBodies(i)
         /\ DOMAIN store = {req[i].userid \o ".json"}
         /\ Cardinality(DOMAIN store) = 1

\* a put of slot i has landed in this step
Landed(i) == PutStep(i) /\ ~req'[i].putFailed

\* C20 amended: concurrent requests for one subject, against a store that
\* starts empty and an upstream that always succeeds. Under every
\* interleaving each request is answered 200 with a payload fetched for the
\* subject (its own when it called the upstream), whether or not the store
\* rejects its get or its put. The store never holds anything but the one
\* entry under the subject's key: it is empty until the first put lands,
\* so still empty when every put was rejected, and holds exactly that entry
\* from the first landed put on.
C20_ConcurrentSame ==
  /\ [](/\ DOMAIN store \subseteq {MamoAgentId \o ".json"}
        /\ \A i \in Slots :
             Done(i) =>
               /\ req[i].response.status = 200
               /\ req[i].response.body \in FetchedBodies(i)
               /\ req[i].fetches = 1 => req[i].response.body = FreshBody(i)
               /\ req[i].fetches = 0 => DOMAIN store = {req[i].cacheKey}
               /\ (req[i].puts = 1 /\ ~req[i].putFailed) =>
                    /\ DOMAIN store = {req[i].userid \o ".json"}
                    /\ Cardinality(DOMAIN store) = 1
                    /\ store[req[i].cacheKey].body \in FetchedBodies(i))
  /\ [][/\ DOMAIN store \subseteq DOMAIN store'
        /\ DOMAIN store' # DOMAIN store =>
             /\ \E i \in Slots : Landed(i)
             /\ store = EmptyStore
        /\ \A i \in Slots :
             /\ Landed(i) => DOMAIN store' = {MamoAgentId \o ".json"}
             /\ (PutStep(i) /\ req'[i].putFailed) => store' = store]_vars

\* C20 witness: of two requests that found the key missing and fetched, one
\* had its put rejected and the other's landed; the one whose put was
\* rejected is the last to complete, answered 200 with its payload, and the
\* store holds the one entry
C20_Witness ==
  /\ req[1].pc = "idle"
  /\ Done(2) /\ IsNone(req[2].object) /\ ~req[2].getFailed
  /\ req[2].puts = 1 /\ req[2].putFailed
  /\ req[2].response.status = 200
  /\ req[2].response.body = FreshBody(2)
  /\ DOMAIN store = {MamoAgentId \o ".json"}
  /\ now = StartTime

\* the step of slot i in which its upstream call settles
FetchStep(i) == req[i].pc = "fetch" /\ req'[i].pc # "fetch"

\* the step of slot i in which the body of the upstream response is read and
\* parsed
JsonStep(i) == req[i].pc = "json" /\ req'[i].pc # "json"

\* the step of slot i in which its upstream attempt fails
FailStep(i) == (FetchStep(i) \/ JsonStep(i)) /\ req'[i].fault # "none"

\* C21: no retry. A request makes at most one store get, at most one
\* upstream call and at most one store put. The step in which its upstream
\* attempt fails is the step that ends it, with the fallback or the error:
\* no further upstream call and no put follow.
C21_NoRetry ==
  /\ [](\A i \in Slots :
          /\ req[i].gets <= 1 /\ req[i].fetches <= 1 /\ req[i].puts <= 1
          /\ req[i].pc \in {"fetch", "json", "put"} => req[i].fault = "none"
          /\ req[i].fault # "none" =>
               /\ req[i].pc = "done"
               /\ req[i].gets = 1 /\ req[i].fetches = 1 /\ req[i].puts = 0
               /\ req[i].response = Fallback(req[i].object, ErrorValue(i)))
  /\ [][\A i \in Slots :
          /\ req'[i].fetches > req[i].fetches => GetStep(i)
          /\ req'[i].gets > req[i].gets => CallStep(i)
          /\ req'[i].puts > req[i].puts => JsonStep(i) /\ req'[i].fault = "none"
          /\ FailStep(i) =>
               /\ req'[i].pc = "done"
               /\ req'[i].fetches = req[i].fetches
               /\ store' = store]_vars

\* C21 witness: a request whose one upstream call failed has ended, with one
\* get, one upstream call and no put
C21_Witness ==
  \E i \in Slots :
    /\ Done(i) /\ req[i].fault = "network"
    /\ req[i].gets = 1 /\ req[i].fetches = 1 /\ req[i].puts = 0
    /\ req[i].response.status = 500

\* the integer parseInt reads from slot i's max_results parameter; None when
\* the parameter is missing or empty, or is not a number
Parsed(i) ==
  IF IsNone(req[i].max_results_param) \/ Get(req[i].max_results_param) = <<>>
  THEN None
  ELSE parseInt(Get(req[i].max_results_param))

\* the upstream call of slot i's request carries the size n
Forwards(i, n) ==
  /\ req[i].max_results = n
  /\ req[i].twitterUrl = twitterUrl(req[i].userid, n)

\* slot i's request has issued its upstream call
Called(i) == Active(i) /\ req[i].fetches = 1

\* C22 as stated: the size forwarded in the upstream call is the integer
\* parsed from the max_results parameter whenever the parameter parses, and
\* the default 6 when the parameter is missing or does not parse.
C22_Original ==
  \A i \in Slots :
    Called(i) =>
      IF IsNone(Parsed(i)) THEN Forwards(i, 6)
      ELSE Forwards(i, Get(Parsed(i)))

\* C22 amended: the size forwarded in the upstream call is the integer
\* parsed from the max_results parameter whenever that integer is not zero,
\* and the default 6 when the parameter is missing, empty, does not parse,
\* or parses as zero.
C22_Coercion ==
  \A i \in Slots :
    Called(i) =>
      IF IsNone(Parsed(i)) \/ Parsed(i) = Some(0) THEN Forwards(i, 6)
      ELSE Forwards(i, Get(Parsed(i)))

\* C22 witness: the parameter "0" has gone to the upstream as 6
C22_Witness ==
  \E i \in Slots :
    /\ Called(i) /\ req[i].max_results_param = Some(<<"0">>)
    /\ Parsed(i) = Some(0) /\ Forwards(i, 6)

\* C23: the size limit of the request context, forwarded in the upstream
\* call, is a positive integer whatever the max_results parameter is
\* (missing, not a number, zero, negative or positive).
C23_Positive ==
  \A i \in Slots :
    Called(i) =>
      /\ req[i].max_results > 0
      /\ Forwards(i, req[i].max_results)

\* C23 failing case: the parameter "-3" has gone to the upstream as -3
C23_Witness ==
  \E i \in Slots :
    /\ Called(i) /\ req[i].max_results_param = Some(<<"-", "3">>)
    /\ Forwards(i, 0 - 3)
    /\ req[i].twitterUrl =
         "https://api.twitter.com/2/users/" \o req[i].userid \o
         "/tweets?max_results=-3" \o
         "&tweet.fields=created_at,entities,public_metrics&expansions=author_id&user.fields=profile_image_url,username"

\* the stages of an invocation and the moves between them:
\* idle (START), get (method checked, key derived, get issued), fetch (miss
\* or stale entry, upstream called), json (upstream answered with a success
\* status, body being read), put (upstream ok, write attempted), done
Moves ==
  {<<"idle", "get">>, <<"idle", "done">>, <<"get", "done">>, <<"get", "fetch">>,
   <<"fetch", "json">>, <<"fetch", "done">>, <<"json", "put">>, <<"json", "done">>,
   <<"put", "done">>, <<"done", "idle">>}

\* C24: per-request ordering. An invocation moves START -> method checked ->
\* key derived -> get -> (fresh hit | miss or stale -> upstream called ->
\* (upstream ok -> write attempted | upstream failed -> (stale entry |
\* error))) and in no other way: a request that fails the method check does
\* no I/O; the key is there when the get is issued and stays the same; the
\* upstream call comes after the get; a put comes after a successful upstream
\* call and writes the key the get read.
C24_Ordering ==
  /\ [](\A i \in Slots :
          /\ (req[i].pc # "idle" /\ req[i].method # "GET") =>
               req[i].pc = "done" /\ req[i].gets + req[i].fetches + req[i].puts = 0
          /\ Active(i) =>
               /\ req[i].gets = 1 /\ req[i].cacheKey = req[i].userid \o ".json"
               /\ req[i].pc = "get" => req[i].fetches = 0 /\ req[i].puts = 0
               /\ req[i].pc = "fetch" => req[i].fetches = 1 /\ req[i].puts = 0
               /\ req[i].pc = "json" => req[i].fetches = 1 /\ req[i].puts = 0
               /\ req[i].pc = "put" => req[i].fetches = 1 /\ req[i].puts = 1
               /\ req[i].fetches = 1 => MissOrStale(req[i].object, now)
               /\ req[i].puts = 1 =>
                    /\ req[i].fetches = 1 /\ req[i].fault = "none"
                    /\ IsSome(req[i].data)
               /\ req[i].pc = "done" =>
                    \/ req[i].fetches = 0 /\ IsSome(req[i].object)
                    \/ req[i].fetches = 1 /\ req[i].puts = 1
                    \/ req[i].fetches = 1 /\ req[i].fault # "none"
                         /\ IsSome(req[i].object) /\ req[i].response.status = 200
                    \/ req[i].fetches = 1 /\ req[i].fault # "none"
                         /\ IsNone(req[i].object) /\ req[i].response.status = 500)
  /\ [][\A i \in Slots :
          /\ req'[i].pc # req[i].pc => <<req[i].pc, req'[i].pc>> \in Moves
          /\ (req[i].pc \in {"get", "fetch", "json", "put"}) =>
               /\ req'[i].cacheKey = req[i].cacheKey
               /\ req'[i].userid = req[i].userid
               /\ req'[i].max_results = req[i].max_results
          /\ CallStep(i) =>
               req'[i].pending = StoreGet(store, req'[i].cacheKey)
          /\ GetStep(i) =>
               req'[i].object \in {None, req[i].pending}
          /\ (PutStep(i) /\ store' # store) =>
               \A k \in DOMAIN store' :
                 k # req[i].cacheKey => StoreGet(store, k) = StoreGet(store', k)]_vars

\* C24 witness: a request has gone the whole way: get, stale entry, upstream
\* call, put under the key it read
C24_Witness ==
  \E i \in Slots :
    /\ Done(i) /\ IsSome(req[i].object)
    /\ req[i].gets = 1 /\ req[i].fetches = 1 /\ req[i].puts = 1
    /\ ~req[i].putFailed
    /\ store[req[i].cacheKey].uploaded = now
    /\ store[req[i].cacheKey].body = req[i].response.body

\* C25: the stale fallback uses the entry read at the cache lookup. The
\* entry a request has read stays what it is until the request ends, whatever
\* is written under the key meanwhile, and the store is read once; when the
\* upstream attempt fails the response is 200 with the body of the entry as
\* read, also when another request has replaced the entry with a newer
\* payload since.
C25_Snapshot ==
  /\ [](\A i \in Slots :
          (Failed(i) /\ IsSome(req[i].object)) =>
            /\ req[i].gets = 1
            /\ req[i].response = CachedResponse(Get(req[i].object))
            /\ (/\ req[i].cacheKey \in DOMAIN store
                /\ store[req[i].cacheKey].body # Get(req[i].object).body) =>
                 req[i].response.body # store[req[i].cacheKey].body)
  /\ [][\A i \in Slots :
          req[i].pc \in {"fetch", "json", "put"} =>
            req'[i].object = req[i].object /\ req'[i].gets = req[i].gets]_vars

\* C25 witness: R read a stale entry, another request then wrote a newer
\* payload under the key, R's upstream call failed: R answers 200 with the
\* body it read, not the body now in the store
C25_Witness ==
  \E i \in Slots :
    /\ Failed(i) /\ IsSome(req[i].object)
    /\ Get(req[i].object).uploaded \in InitUploads
    /\ store[req[i].cacheKey].uploaded \notin InitUploads
    /\ store[req[i].cacheKey].uploaded > Get(req[i].object).uploaded
    /\ store[req[i].cacheKey].body # Get(req[i].object).body
    /\ req[i].response.status = 200
    /\ req[i].response.body = Get(req[i].object).body

\* the bodies a put of the handler can write for subject u
PayloadBodies(u) ==
  {Canonical(Payload(u, max_resultsOf(q.max_results))) : q \in Requests}

\* C26: last write wins, nothing is merged. A put that lands replaces the
\* entry under its key as a whole, body, metadata and upload time, whatever
\* was there and whoever wrote it; so the entry under a key is always the
\* object of one single write, its body one payload and never a combination,
\* and after several requests wrote the key it is the write applied last.
C26_LastWriteWins ==
  /\ [](\A k \in DOMAIN store :
          \E u \in UserIds :
            /\ k = u \o ".json"
            /\ store[k].body \in PayloadBodies(u)
            /\ store[k].metadata = Metadata(u))
  /\ [][\A i \in Slots :
          /\ (PutStep(i) /\ ~req'[i].putFailed) =>
               /\ store'[req[i].cacheKey] =
                    StoredObject(Canonical(Get(req'[i].data)),
                                 Metadata(req[i].userid), now)
               /\ DOMAIN store' = DOMAIN store \cup {req[i].cacheKey}
          /\ ReturnStep(i) =>
               /\ store' = store
               /\ req'[i].response.body = Canonical(Get(req[i].data))]_vars

\* C26 witness: two requests for one key hold different payloads and both
\* have called the put; the one whose call came last has returned, the entry
\* is its write, and the put of the other is still to settle
C26_Witness ==
  \E i, j \in Slots :
    /\ i # j /\ req[i].cacheKey = req[j].cacheKey
    /\ Done(i) /\ req[i].puts = 1 /\ ~req[i].putFailed
    /\ req[j].pc = "put" /\ req[j].data # req[i].data
    /\ IsSome(req[j].object)
    /\ store[req[i].cacheKey] # Get(req[j].object)
    /\ store[req[i].cacheKey].body = Canonical(Get(req[i].data))
    /\ store[req[i].cacheKey].body # Canonical(Get(req[j].data))

\* the bodies of the upstream's successful responses for slot i's request
OkTexts(i) ==
  {o.text : o \in {x \in UpstreamOutcomes(req[i].userid, req[i].max_results) :
                      x.kind = "resp" /\ x.status \in 200..299}}

\* C27: only payloads of successful refreshes are stored. A put is issued
\* only for an upstream response with a success status whose body parsed as
\* JSON, and what it writes under s + ".json" is the serialisation of the
\* payload of that response, a payload the upstream returned for s; an error
\* response, an error body of the handler or an unparsable body is never in
\* the store, and a request whose upstream attempt failed leaves the store
\* as it is.
C27_OnlySuccessStored ==
  /\ [](\A i \in Slots :
          req[i].puts = 1 =>
            /\ req[i].fault = "none"
            /\ req[i].text \in OkTexts(i)
            /\ JsonParse(req[i].text) = req[i].data
            /\ req[i].data = Some(Payload(req[i].userid, req[i].max_results)))
  /\ [](\A k \in DOMAIN store :
          /\ store[k].body \notin
               {RateLimitText, InvalidJsonText, FetchErrorBody, ParseErrorBody}
          /\ IsSome(JsonParse(store[k].body))
          /\ Get(JsonParse(store[k].body)).key \o ".json" = k)
  /\ [][\A i \in Slots :
          /\ FailStep(i) => store' = store
          /\ (PutStep(i) /\ ~req'[i].putFailed) =>
               /\ req'[i].text \in OkTexts(i)
               /\ JsonParse(store'[req[i].userid \o ".json"].body) =
                    JsonParse(req'[i].text)]_vars

\* C27 witness: the upstream answered 429 with a JSON body; the request fell
\* back to the entry it read, and that entry is still what the store holds
C27_Witness ==
  \E i \in Slots :
    /\ Failed(i) /\ req[i].fault = "status" /\ IsSome(req[i].object)
    /\ req[i].puts = 0
    /\ store[req[i].cacheKey] = Get(req[i].object)
    /\ store[req[i].cacheKey].body # RateLimitText

\* C28: metadata of the entries. Every put of the handler writes an entry
\* whose metadata is the content-type tag "application/json" and the userid
\* of the writing request, under the key userid + ".json"; so in every store
\* state every entry satisfies key = metadata.userid + ".json".
C28_Metadata ==
  /\ [](\A k \in DOMAIN store :
          /\ DOMAIN store[k].metadata = {"Content-Type", "userid"}
          /\ store[k].metadata["Content-Type"] = "application/json"
          /\ k = store[k].metadata["userid"] \o ".json")
  /\ [][\A i \in Slots :
          (PutStep(i) /\ ~req'[i].putFailed) =>
            LET entry == store'[req[i].cacheKey] IN
              /\ entry.metadata["Content-Type"] = "application/json"
              /\ entry.metadata["userid"] = req[i].userid
              /\ entry.metadata["userid"] = useridOf(req[i].useridParam)
              /\ req[i].cacheKey = entry.metadata["userid"] \o ".json"]_vars

\* C28 witness: a request for subject 1883305846995845120 has written its
\* entry, which carries the tag and that userid, under its key
C28_Witness ==
  \E i \in Slots :
    /\ Done(i) /\ req[i].useridParam = Some(MamoAgentId)
    /\ req[i].puts = 1 /\ ~req[i].putFailed
    /\ store[MamoAgentId \o ".json"].uploaded = now
    /\ store[MamoAgentId \o ".json"].metadata["userid"] = MamoAgentId
    /\ store[MamoAgentId \o ".json"].metadata["Content-Type"] = "application/json"

\* C29: the handler never deletes. No step of the handler removes a key
\* from the store: over the steps of any requests the set of keys only
\* grows, the only step of the handler that changes the store is a put that
\* lands, and under a key that is already there it puts a new entry in the
\* place of the old one. A key disappears only when a test deletes it or
\* clears the bucket.
C29_NeverDeletes ==
  [][/\ HandlerStep => DOMAIN store \subseteq DOMAIN store'
     /\ ~(DOMAIN store \subseteq DOMAIN store') =>
          /\ req' = req /\ now' = now
          /\ \/ store' = EmptyStore
             \/ \E u \in UserIds : store' = StoreDelete(store, cacheKey(u))
     /\ (HandlerStep /\ store' # store) =>
          \E i \in Slots :
            /\ PutStep(i) /\ ~req'[i].putFailed
            /\ DOMAIN store' = DOMAIN store \cup {req[i].cacheKey}
            /\ \A k \in DOMAIN store :
                 k # req[i].cacheKey => store'[k] = store[k]
     /\ \A i \in Slots :
          (PutStep(i) /\ req'[i].putFailed) => store' = store]_vars

\* C29 witness: with entries for two subjects in the store, a request has
\* written over the entry it read; both keys are still there
C29_Witness ==
  \E i \in Slots :
    /\ Done(i) /\ IsSome(req[i].object)
    /\ req[i].puts = 1 /\ ~req[i].putFailed
    /\ Cardinality(DOMAIN store) = 2
    /\ store[req[i].cacheKey].uploaded = now

\* the entry read under a key is there and not older than the window
FreshIn(object, time) ==
  /\ IsSome(object)
  /\ ~(Get(object).uploaded < time - 901 * 1000)

\* the store as far as the subject u is concerned
Own(s, u) == [k \in DOMAIN s \cap {u \o ".json"} |-> s[k]]

\* C30: freshness is per key. Whether a request for subject a goes to the
\* upstream is decided by the entry under a's key and the clock alone (and
\* by its get being rejected): a fresh entry for a is a hit whatever the
\* other entries are, a stale or missing one is a miss however fresh the
\* others are. With a stale entry for a and a fresh entry for b, requests
\* for both make one upstream call, and it is for a.
C30_PerKeyFreshness ==
  /\ [][\A i \in Slots :
          /\ CallStep(i) =>
               req'[i].pending =
                 StoreGet(Own(store, req'[i].userid), req'[i].userid \o ".json")
          /\ (GetStep(i) /\ ~req'[i].getFailed) =>
               /\ req'[i].fetches = 1 <=> ~FreshIn(req[i].pending, now)
               /\ req'[i].fetches = 0 <=> req'[i].pc = "done"]_vars
  /\ [](\A i, j \in Slots :
          (/\ Active(i) /\ Active(j) /\ req[i].userid # req[j].userid
           /\ req[i].pc # "get" /\ req[j].pc # "get"
           /\ IsSome(req[i].object) /\ IsSome(req[j].object)
           /\ Age(i) > FRESHNESS_MS /\ Age(j) <= FRESHNESS_MS) =>
            /\ req[i].fetches + req[j].fetches = 1
            /\ req[i].fetches = 1
            /\ req[i].twitterUrl = twitterUrl(req[i].userid, req[i].max_results)
            /\ req[j].twitterUrl = ""
            /\ req[j].response.body = Get(req[j].object).body)

\* C30 witness: the store holds a stale entry for a and a fresh entry for b;
\* the request for b is a hit while the request for a has called the upstream
C30_Witness ==
  \E i, j \in Slots :
    /\ Active(i) /\ Active(j) /\ req[i].userid # req[j].userid
    /\ req[i].pc = "fetch" /\ IsSome(req[i].object) /\ Age(i) > FRESHNESS_MS
    /\ store[req[i].cacheKey] = Get(req[i].object)
    /\ req[j].pc = "done" /\ IsSome(req[j].object) /\ Age(j) <= FRESHNESS_MS
    /\ store[req[j].cacheKey] = Get(req[j].object)
    /\ req[i].fetches = 1 /\ req[j].fetches = 0

\* C31: a fresh hit leaves the store unchanged. A request served from a
\* fresh entry issues no put and none of its steps changes the store: when it
\* answers, the entry under its key is the entry it read, with the same body,
\* upload time and metadata, so a read does not extend the freshness window.
C31_HitFrame ==
  /\ [](\A i \in Slots :
          (Done(i) /\ req[i].fetches = 0) =>
            /\ req[i].puts = 0
            /\ IsSome(req[i].object)
            /\ ~MissOrStale(req[i].object, now)
            /\ req[i].response = CachedResponse(Get(req[i].object)))
  /\ [][\A i \in Slots :
          /\ (req'[i] # req[i] /\ req'[i].fetches = 0) =>
               /\ store' = store
               /\ req'[i].puts = 0
          /\ (GetStep(i) /\ req'[i].fetches = 0) =>
               /\ req'[i].object = req[i].pending
               /\ StoreGet(store, req[i].cacheKey) = req[i].pending =>
                    StoreGet(store', req[i].cacheKey) = req'[i].object]_vars

\* C31 witness: a request has been served from an entry written before the
\* clock's present, and the entry still carries its old upload time
C31_Witness ==
  \E i \in Slots :
    /\ Done(i) /\ req[i].fetches = 0 /\ req[i].puts = 0
    /\ IsSome(req[i].object) /\ Age(i) = FRESHNESS_MS
    /\ store[req[i].cacheKey].uploaded = now - FRESHNESS_MS
    /\ store[req[i].cacheKey] = Get(req[i].object)
    /\ req[i].response.status = 200

\* C32: an upstream failure leaves the store unchanged. On every failure
\* path (network error, non-success status, body that does not parse), with
\* or without a stale entry, the request issues no put and the step in which
\* it fails does not change the store; a stale entry that nothing rewrites
\* keeps its body and upload time and stays stale as the clock moves on, and
\* every get that finds no entry or a stale one under its key is followed by
\* an upstream call, so the next request for the key tries the upstream again.
C32_FailureFrame ==
  /\ [](\A i \in Slots :
          Failed(i) =>
            /\ req[i].fault \in {"network", "status", "payload"}
            /\ req[i].fetches = 1 /\ req[i].puts = 0
            /\ MissOrStale(req[i].object, now)
            /\ (~req[i].getFailed /\ StoreGet(store, req[i].cacheKey) = req[i].object) =>
                 MissOrStale(StoreGet(store, req[i].cacheKey), now))
  /\ [][\A i \in Slots :
          /\ FailStep(i) =>
               /\ store' = store
               /\ req'[i].puts = 0 /\ req'[i].pc = "done"
          /\ (req[i].fault # "none" /\ req'[i] # req[i]) =>
               store' = store /\ req'[i] = IdleReq
          /\ CallStep(i) => req'[i].pending = StoreGet(store, req'[i].cacheKey)
          /\ GetStep(i) =>
               (MissOrStale(req[i].pending, now) =>
                  req'[i].fetches = 1 /\ req'[i].pc = "fetch")]_vars
  /\ [][\A k \in DOMAIN store :
          (MissOrStale(Some(store[k]), now) /\ StoreGet(store', k) = Some(store[k])) =>
            MissOrStale(StoreGet(store', k), now')]_vars

\* C32 witness: the upstream answered with a body that is not JSON; the
\* request fell back to the stale entry it read, and the store still holds
\* that entry with its old upload time
C32_Witness ==
  \E i \in Slots :
    /\ Failed(i) /\ req[i].fault = "payload"
    /\ IsSome(req[i].object) /\ Age(i) > FRESHNESS_MS
    /\ req[i].puts = 0
    /\ store[req[i].cacheKey] = Get(req[i].object)
    /\ store[req[i].cacheKey].uploaded < now - FRESHNESS_MS
    /\ req[i].response.status = 200

\* what a request observes: its subject and size, the result of its store
\* read, whether that result is missing or stale against the clock, and the
\* outcome of its upstream call (the fault, or the body of the response)
Observed(i) ==
  [userid      |-> req[i].userid,
   max_results |-> req[i].max_results,
   object      |-> req[i].object,
   stale       |-> MissOrStale(req[i].object, now),
   fault       |-> req[i].fault,
   text        |-> req[i].text]

\* the response and the store write that follow from an observation
HandlerResult(obs) ==
  IF ~obs.stale
  THEN [response |-> CachedResponse(Get(obs.object)), write |-> None]
  ELSE IF obs.fault \in {"network", "status"}
  THEN [response |-> Fallback(obs.object, FetchErrorValue), write |-> None]
  ELSE IF obs.fault = "payload"
  THEN [response |-> Fallback(obs.object, ParseErrorValue), write |-> None]
  ELSE [response |-> respond(Get(JsonParse(obs.text)), None),
        write    |-> Some([key      |-> obs.userid \o ".json",
                           body     |-> JsonStringify(Get(JsonParse(obs.text))),
                           metadata |-> Metadata(obs.userid)])]

\* the write slot i's request has issued, None when it has issued none
Issued(i) ==
  IF req[i].puts = 0 THEN None
  ELSE Some([key      |-> req[i].cacheKey,
             body     |-> JsonStringify(Get(req[i].data)),
             metadata |-> Metadata(req[i].userid)])

\* C33: request isolation and determinism. An invocation starts from fresh
\* locals and nothing of an earlier or a concurrent invocation enters it:
\* the response (status, headers, body) of a GET request and the write it
\* issues are a function of what it observes, its userid and max_results,
\* the result of its store read, the relation of the clock to the entry and
\* the outcome of its upstream call. So two requests that observe the same
\* produce the same response and the same write; a write that lands puts
\* exactly the issued body and metadata under the issued key.
C33_Deterministic ==
  /\ [](\A i \in Slots :
          /\ req[i].pc = "idle" => req[i] = IdleReq
          /\ Done(i) =>
               /\ req[i].response = HandlerResult(Observed(i)).response
               /\ Issued(i) = HandlerResult(Observed(i)).write)
  /\ [](\A i, j \in Slots :
          (/\ req[i].pc = "put" /\ req[j].pc = "put"
           /\ req[i].userid = req[j].userid
           /\ req[i].max_results = req[j].max_results
           /\ req[i].text = req[j].text) =>
            req[i].data = req[j].data /\ Issued(i) = Issued(j))
  /\ [][\A i \in Slots :
          /\ CallStep(i) =>
               \E u \in UserIdParams, p \in {q.max_results : q \in Requests} :
                 req'[i] = [IdleReq EXCEPT !.pc = "get", !.method = "GET",
                                           !.useridParam = u,
                                           !.max_results_param = p,
                                           !.userid = useridOf(u),
                                           !.max_results = max_resultsOf(p),
                                           !.cacheKey = cacheKey(useridOf(u)),
                                           !.pending =
                                             StoreGet(store, cacheKey(useridOf(u))),
                                           !.gets = 1]
          /\ (PutStep(i) /\ ~req'[i].putFailed) =>
               store'[req[i].cacheKey] =
                 StoredObject(Get(Issued(i)').body, Get(Issued(i)').metadata, now)]_vars

\* C33 witness: two requests with the same userid and max_results read the
\* same stale entry and got the same upstream body; the first has answered
\* and written, the second holds the same payload and the same write
C33_Witness ==
  \E i, j \in Slots :
    /\ i # j /\ Done(i) /\ req[j].pc = "put"
    /\ req[i].userid = req[j].userid /\ req[i].max_results = req[j].max_results
    /\ IsSome(req[i].object) /\ req[i].object = req[j].object
    /\ req[i].text = req[j].text /\ req[i].text # <<>>
    /\ ~req[i].putFailed
    /\ req[i].response = respond(Get(req[j].data), None)
    /\ Issued(i) = Issued(j)
    /\ store[req[i].cacheKey].body = Get(Issued(j)).body

\* the subject whose payload the body is, None when the body is no payload
SubjectOf(body) ==
  IF IsNone(JsonParse(body)) THEN None ELSE Some(Get(JsonParse(body)).key)

\* C34: the predecessor handler violates key isolation. Every request reads
\* and writes the one key latest.json, whatever its subject. A request whose
\* get finds an entry within the 600-second window is answered with that
\* entry's body and makes no upstream call, also when the entry holds the
\* payload fetched for another subject; and a put that lands leaves the
\* store with the writer's payload alone, so a fetch for b overwrites the
\* entry of a.
C34_LatestSharesKey ==
  /\ [](/\ DOMAIN store \subseteq {LatestKey}
        /\ \A i \in Slots : Active(i) => req[i].cacheKey = LatestKey)
  /\ [][\A i \in Slots :
          /\ CallStep(i) => req'[i].pending = StoreGet(store, LatestKey)
          /\ (/\ GetStep(i) /\ ~req'[i].getFailed
              /\ IsSome(req[i].pending)
              /\ now - Get(req[i].pending).uploaded <= LATEST_FRESHNESS_MS) =>
               /\ req'[i].pc = "done"
               /\ req'[i].fetches = 0 /\ req'[i].twitterUrl = ""
               /\ req'[i].response = CachedResponse(Get(req[i].pending))
               /\ store' = store
          /\ (PutStep(i) /\ ~req'[i].putFailed) =>
               /\ req[i].fetches = 1
               /\ req[i].twitterUrl =
                    LatestUrl(useridOf(req[i].useridParam),
                              Latest_max_resultsOf(req[i].max_results_param))
               /\ store' = (LatestKey :>
                              StoredObject(Canonical(Get(req'[i].data)),
                                           LatestMetadata, now))]_vars

\* C34 witness: the entry under latest.json holds the payload fetched for
\* the default subject and is within the window; a request for subject
\* 1883305846995845120 has been answered with it, without an upstream call
C34_Witness ==
  \E i \in Slots :
    /\ Done(i) /\ req[i].fault = "none"
    /\ req[i].useridParam = Some(MamoAgentId)
    /\ req[i].fetches = 0 /\ req[i].puts = 0 /\ req[i].twitterUrl = ""
    /\ now - store[LatestKey].uploaded <= LATEST_FRESHNESS_MS
    /\ SubjectOf(store[LatestKey].body) = Some(DefaultUserId)
    /\ req[i].response.status = 200
    /\ req[i].response.body = store[LatestKey].body
    /\ SubjectOf(req[i].response.body) # Some(useridOf(req[i].useridParam))

\* C35: a userid parameter that is present but empty is treated as absent.
\* A request with ?userid= has the default identifier 1472197491844026370 as
\* its subject: its cache key is 1472197491844026370.json, its upstream call
\* is for that identifier, and the entry it writes carries that identifier in
\* its metadata; it has the request context of a request without the
\* parameter, so the two share the default subject's entry.
C35_EmptyUserid ==
  /\ [](\A i \in Slots :
          (Active(i) /\ req[i].useridParam = Some("")) =>
            /\ req[i].userid = "1472197491844026370"
            /\ req[i].cacheKey = "1472197491844026370.json"
            /\ req[i].fetches = 1 =>
                 req[i].twitterUrl = twitterUrl("1472197491844026370", req[i].max_results)
            /\ IsSome(req[i].data) =>
                 Get(req[i].data) = Payload("1472197491844026370", req[i].max_results)
            /\ (req[i].puts = 1 /\ ~req[i].putFailed) =>
                 store["1472197491844026370.json"].metadata["userid"] =
                   "1472197491844026370")
  /\ [](\A i, j \in Slots :
          (/\ Active(i) /\ req[i].useridParam = Some("")
           /\ Active(j) /\ req[j].useridParam = None) =>
            /\ req[i].userid = req[j].userid
            /\ req[i].cacheKey = req[j].cacheKey)
  /\ [](\A k \in DOMAIN store : k # ".json" /\ store[k].metadata["userid"] # "")
  /\ [][\A i \in Slots :
          /\ (CallStep(i) /\ req'[i].useridParam = Some("")) =>
               req'[i].pending = StoreGet(store, cacheKey(DefaultUserId))
          /\ (GetStep(i) /\ req[i].useridParam = Some("") /\ ~req'[i].getFailed) =>
               req'[i].object = req[i].pending
          /\ (PutStep(i) /\ req[i].useridParam = Some("") /\ ~req'[i].putFailed) =>
               /\ store' = StorePut(store, "1472197491844026370.json",
                                    store'["1472197491844026370.json"])
               /\ store'["1472197491844026370.json"].uploaded = now]_vars

\* C35 witness: a request with an empty userid parameter has written the
\* default subject's entry, and a request without the parameter, in flight,
\* has that key
C35_Witness ==
  \E i, j \in Slots :
    /\ Done(i) /\ req[i].useridParam = Some("")
    /\ req[i].puts = 1 /\ ~req[i].putFailed
    /\ Active(j) /\ req[j].useridParam = None
    /\ req[j].cacheKey = req[i].cacheKey
    /\ DOMAIN store = {"1472197491844026370.json"}
    /\ store[req[j].cacheKey].metadata["userid"] = DefaultUserId
    /\ store[req[j].cacheKey].uploaded = now
    /\ store[req[j].cacheKey].body = req[i].response.body

====
